---- MODULE Spec2Model ----
(***************************************************************************)
(* Model of the per-company JSON persistence core of api/server.js:        *)
(* readJSON / writeJSONAtomic, the company path helpers, readOrders /      *)
(* writeOrders and the order routes.  Request handlers are processes that  *)
(* interleave at every awaited filesystem call.                            *)
(***************************************************************************)
EXTENDS Integers, Sequences, FiniteSets, TLC

\* ------------------------------------------------------------------ bounds
NumProcs == 3
\* filesystem calls that may fail by themselves during one run of the store model
MaxFaults == 2
\* requests started during one run
MaxReqs == 2
\* writeOrders calls on one document during one run of the overlap model
MaxWriters == 3
\* Date.now() takes the values 1..MaxClock
MaxClock == 2
\* Math.floor(Math.random() * 10000) is drawn from 0..MaxRand
MaxRand == 1

Procs == 1..NumProcs

\* ------------------------------------------------------------- JS values
\* A value carries its type tag; a string that is a decimal numeral is
\* [t |-> "str", txt |-> "#", n |-> k], so String(5) and "5" are equal.
Val(t, txt, n, rnd, els) == [t |-> t, txt |-> txt, n |-> n, rnd |-> rnd, els |-> els]
Undefined == Val("undefined", "", 0, 0, <<>>)
Null == Val("null", "", 0, 0, <<>>)
NaN == Val("nan", "", 0, 0, <<>>)
Str(s) == Val("str", s, 0, 0, <<>>)
Num(k) == Val("num", "", k, 0, <<>>)
NumStr(k) == Val("str", "#", k, 0, <<>>)
Arr(els) == Val("arr", "", 0, 0, els)

\* String(x) that leaves a number a number (the coercion forgotten)
StringKeepsNumbers(x) ==
  CASE x.t = "undefined" -> Str("undefined")
    [] x.t = "null" -> Str("null")
    [] x.t = "nan" -> Str("NaN")
    [] x.t = "arr" -> Str("")
    [] OTHER -> x

\* String(x)
String(x) ==
  CASE x.t = "undefined" -> Str("undefined")
    [] x.t = "null" -> Str("null")
    [] x.t = "nan" -> Str("NaN")
    [] x.t = "num" -> NumStr(x.n)
    [] x.t = "arr" -> Str("")
    [] OTHER -> x

\* !x is false
Truthy(x) ==
  /\ x.t \notin {"undefined", "null", "nan"}
  /\ ~(x.t = "str" /\ x.txt = "")
  /\ ~(x.t = "num" /\ x.n = 0)

IsArray(x) == x.t = "arr"

RECURSIVE ToNumber(_)
\* the number a relational operator sees: [nan |-> TRUE] for NaN
ToNumber(x) ==
  CASE x.t = "num" -> [nan |-> FALSE, n |-> x.n]
    [] x.t = "null" -> [nan |-> FALSE, n |-> 0]
    [] x.t = "str" /\ x.txt = "#" -> [nan |-> FALSE, n |-> x.n]
    [] x.t = "str" /\ x.txt = "" -> [nan |-> FALSE, n |-> 0]
    [] x.t = "arr" /\ x.els = <<>> -> [nan |-> FALSE, n |-> 0]
    [] x.t = "arr" /\ Len(x.els) = 1 ->
         IF x.els[1].t \in {"null", "undefined"} THEN [nan |-> FALSE, n |-> 0]
         ELSE ToNumber(x.els[1])
    [] OTHER -> [nan |-> TRUE, n |-> 0]

\* x < k and x > k for a number k: false when x converts to NaN
Lt(x, k) == ~ToNumber(x).nan /\ ToNumber(x).n < k
Gt(x, k) == ~ToNumber(x).nan /\ ToNumber(x).n > k

\* `ORD-${Date.now()}-${Math.floor(Math.random() * 10000)}`
GenId(ms, rnd) == Val("str", "ORD-", ms, rnd, <<>>)
\* new Date().toISOString()
IsoNow(ms) == Val("str", "ISO", ms, 0, <<>>)

NoRating == [set |-> FALSE, stars |-> Undefined, review |-> Undefined, timestamp |-> Undefined]

\* An order (and a request body): absent keys hold Undefined.
MkOrder(id, desk, items, status) ==
  [id |-> id, desk |-> desk, items |-> items, itemsDetailed |-> Undefined,
   status |-> status, timestamp |-> Undefined, startedAt |-> Undefined,
   completedAt |-> Undefined, teaboyName |-> Undefined,
   serviceAreaName |-> Undefined, rating |-> NoRating]

EmptyBody == MkOrder(Undefined, Undefined, Undefined, Undefined)

\* --------------------------------------------------------------- paths
\* A path is the sequence of its segments below __dirname; a company
\* identifier is the sequence of the segments of its string ("" is <<>>).
NoCompany == <<>>

RECURSIVE Normalize(_, _)
\* path.normalize, as path.join applies it
Normalize(segs, acc) ==
  IF segs = <<>> THEN acc
  ELSE LET s == Head(segs) IN
       Normalize(Tail(segs),
         IF s = "." \/ s = "" THEN acc
         ELSE IF s = ".." /\ acc # <<>> /\ acc[Len(acc)] # ".."
              THEN SubSeq(acc, 1, Len(acc) - 1)
              ELSE Append(acc, s))

PathJoin(a, b) == Normalize(a \o b, <<>>)

ORDERS_FILE == <<"orders.json">>
ORDERS_FILE_TMP == <<"orders.json.tmp">>
DATA_COMPANIES_DIR == <<"data", "companies">>

companyDir(companyId) ==
  PathJoin(DATA_COMPANIES_DIR, IF companyId # <<>> THEN companyId ELSE <<"default">>)
companyFilePath(companyId, filename) == PathJoin(companyDir(companyId), <<filename>>)
companyOrdersPath(companyId) == companyFilePath(companyId, "orders.json")
companyOrdersTmpPath(companyId) == companyFilePath(companyId, "orders.json.tmp")

\* the destination and the temporary path readOrders / writeOrders use
OrdersFile(companyId) ==
  IF companyId # <<>> THEN companyOrdersPath(companyId) ELSE ORDERS_FILE
OrdersTmp(companyId) ==
  IF companyId # <<>> THEN companyOrdersTmpPath(companyId) ELSE ORDERS_FILE_TMP

DESKS_FILE == <<"desks.json">>
DESKS_FILE_TMP == <<"desks.json.tmp">>
companyDesksPath(companyId) == companyFilePath(companyId, "desks.json")
companyDesksTmpPath(companyId) == companyFilePath(companyId, "desks.json.tmp")

\* the destination and the temporary path readDesks / writeDesks use
DesksFile(companyId) ==
  IF companyId # <<>> THEN companyDesksPath(companyId) ELSE DESKS_FILE
DesksTmp(companyId) ==
  IF companyId # <<>> THEN companyDesksTmpPath(companyId) ELSE DESKS_FILE_TMP

\* A file name built from a template (`${id}.json`) is the last segment of the
\* identifier with the suffix appended; the segments before it are joined and
\* normalised with the directory.
MENUS_DIR == <<"menus">>
UPLOADS_DIR == <<"uploads">>
Front(segs) == SubSeq(segs, 1, Len(segs) - 1)
Last(segs) == segs[Len(segs)]
JoinNamed(dir, name, suffix) == PathJoin(dir, Front(name)) \o <<Last(name) \o suffix>>

\* path.join(MENUS_DIR, `${id}.json`) and path.join(companyDir(id), "menu.json")
\* of writeMenuCompany / readMenuCompany, and their temporary paths
canonicalMenuPath(id) == JoinNamed(MENUS_DIR, id, ".json")
companyMenuFile(id) == PathJoin(companyDir(id), <<"menu.json">>)
TmpOf(path) == [path EXCEPT ![Len(path)] = @ \o ".tmp"]

\* path.join(UPLOADS_DIR, "menus", String(id))
menuUploadsDir(id) == PathJoin(UPLOADS_DIR, <<"menus">> \o id)
\* path.join(menuUploadsDir, `${item.id || String(Date.now())}.${ext}`)
savePath(id, name, ext) == JoinNamed(menuUploadsDir(id), name, ext)
\* the directory a path's file is in
Dirname(path) == SubSeq(path, 1, Len(path) - 1)

\* ------------------------------------------------------- file contents
\* absent: no such file; empty: zero bytes; partial: a proper prefix or a
\* mix of two documents (unparsable); full: the text of one document.
Absent == [st |-> "absent", doc |-> <<>>]
EmptyFile == [st |-> "empty", doc |-> <<>>]
Partial == [st |-> "partial", doc |-> <<>>]

\* what JSON.stringify keeps of a value
JsonVal(x) ==
  CASE x.t = "nan" -> Null
    [] x.t = "arr" ->
         Arr([i \in 1..Len(x.els) |->
                IF x.els[i].t \in {"undefined", "nan"} THEN Null ELSE x.els[i]])
    [] OTHER -> x

JsonOrder(o) ==
  [id |-> JsonVal(o.id), desk |-> JsonVal(o.desk), items |-> JsonVal(o.items),
   itemsDetailed |-> o.itemsDetailed,
   status |-> JsonVal(o.status), timestamp |-> JsonVal(o.timestamp),
   startedAt |-> JsonVal(o.startedAt), completedAt |-> JsonVal(o.completedAt),
   teaboyName |-> JsonVal(o.teaboyName),
   serviceAreaName |-> JsonVal(o.serviceAreaName),
   rating |-> IF o.rating.set
              THEN [set |-> TRUE, stars |-> JsonVal(o.rating.stars),
                    review |-> JsonVal(o.rating.review),
                    timestamp |-> JsonVal(o.rating.timestamp)]
              ELSE NoRating]

\* JSON.stringify(obj, null, 2) of an array of orders
Stringify(orders) == [st |-> "full", doc |-> [i \in 1..Len(orders) |-> JsonOrder(orders[i])]]

\* JSON.parse(raw) inside readJSON; `!raw || !raw.trim()` and a text that does not
\* parse give the fallback (the second is logged)
ParseOr(content, fallback) ==
  IF content.st = "full" THEN [threw |-> FALSE, value |-> content.doc, log |-> ""]
  ELSE IF content.st = "empty" THEN [threw |-> FALSE, value |-> fallback, log |-> "empty"]
  ELSE [threw |-> FALSE, value |-> fallback, log |-> "parse"]

\* readJSON with the outer catch rethrowing what is not ENOENT
readJSONRethrows(content, ioError, fallback) ==
  IF ioError THEN [threw |-> TRUE, value |-> fallback, log |-> "ioerror"]
  ELSE IF content.st = "absent" THEN [threw |-> FALSE, value |-> fallback, log |-> "enoent"]
  ELSE ParseOr(content, fallback)

\* readJSON(filePath, fallback); ioError: fs.readFile rejected with a code other
\* than ENOENT.  The result says whether the call threw, what it returned and
\* which branch it took.
readJSON(content, ioError, fallback) ==
  IF ioError THEN [threw |-> FALSE, value |-> fallback, log |-> "ioerror"]
  ELSE IF content.st = "absent" THEN [threw |-> FALSE, value |-> fallback, log |-> "enoent"]
  ELSE ParseOr(content, fallback)

\* ------------------------------------------------------- desk registry
\* A JS object is [t |-> "obj", map |-> key -> value], Undefined for a key the
\* object lacks; the keys are the desk ids of the model.
DeskKeys == {NumStr(3), NumStr(0), NumStr(-3), Str("x")}
Obj(map) == [t |-> "obj", map |-> map]
EmptyObj == Obj([k \in DeskKeys |-> Undefined])
\* a desk {building, floor, teaBoy}, told apart by its building
Desk(building) == [t |-> "desk", building |-> building]

\* a desks document {numDesks, desks}: Undefined for a key it lacks
Registry(numDesks, desks) == [numDesks |-> numDesks, desks |-> desks]

\* the registry ensureFilesExist writes: desks "1" to "10" with empty fields
defaultDesks ==
  Registry(Num(10),
           Obj([k \in DeskKeys |->
                  IF k.txt = "#" /\ k.n \in 1..10 THEN Desk("") ELSE Undefined]))

\* the text of a document that is one JSON value
JsonText(data) == [st |-> "full", doc |-> <<data>>]

\* parseInt(id, 10) of a desk id
ParseInt(id) ==
  IF id.t = "str" /\ id.txt = "#" THEN [nan |-> FALSE, n |-> id.n]
  ELSE [nan |-> TRUE, n |-> 0]

\* ----------------------------------------------------------------- menu
\* A JSON value of a menu file: an object with its categories in key order,
\* or null, a number, an array.
Menu(cats) == [t |-> "obj", cats |-> cats]
JNull == [t |-> "null", cats |-> <<>>]
JNum == [t |-> "num", cats |-> <<>>]
JArr == [t |-> "arr", cats |-> <<>>]

\* item.imageData: none; a data:image/<ext>;base64,<bytes> string; a string
\* that starts with "data:" and does not match; another string
NoImageData == [kind |-> "none", ext |-> "", bytes |-> ""]
DataImage(ext, bytes) == [kind |-> "image", ext |-> ext, bytes |-> bytes]
BadDataUri == [kind |-> "baddata", ext |-> "", bytes |-> ""]
PlainString == [kind |-> "plain", ext |-> "", bytes |-> ""]

\* item.image: none, or the URL of the file at `path`
NoImage == [set |-> FALSE, path |-> <<>>]
ImageUrl(path) == [set |-> TRUE, path |-> path]

\* item.id: the segments of the string, <<>> when the item has none
NoItemId == <<>>
Item(id, imageData) == [id |-> id, imageData |-> imageData, image |-> NoImage]
\* a category {name, desc, items}; isArray: items is an array
Category(items) == [isArray |-> TRUE, items |-> items]
NoItemsCategory == [isArray |-> FALSE, items |-> <<>>]

\* the built-in tree of readMenuCompany
defaultMenu ==
  Menu(<<Category(<<Item(<<"espresso">>, NoImageData), Item(<<"americano">>, NoImageData),
                    Item(<<"cappuccino">>, NoImageData)>>)>>)

\* the text of an image file
ImageFile(bytes) == [st |-> "full", doc |-> <<bytes>>]

\* ------------------------------------------------------------------ state
VARIABLES
  fs,       \* path -> file content
  fd,       \* process -> where the file it holds open lives (a path, NoFd, Orphan)
  pc,       \* process -> position of its handler
  op,       \* process -> the operation it runs
  company,  \* process -> req.query.company || null
  param,    \* process -> req.params.id
  body,     \* process -> req.body (for writeOrders: unused)
  orders,   \* process -> the array the handler holds in memory
  json,     \* process -> the text writeJSONAtomic is writing
  wfail,    \* process -> the last direct write failed (finalErr is pending)
  reply,    \* process -> the response sent, code 0 while none
  now,      \* Date.now()
  faults,   \* filesystem calls that may still fail
  started,  \* requests started so far
  server,   \* "up", or "down" once the process has exited
  tried,    \* process -> the tiers its writeJSONAtomic call has attempted
  quiet,    \* process -> no other write to its file has run since its write began
  _ordersWriteLock  \* the flag safeWriteOrdersFile holds while it writes

vars == <<fs, fd, pc, op, company, param, body, orders, json, wfail, reply,
          now, faults, started, server, tried, quiet, _ordersWriteLock>>

NoFd == <<"nofd">>
Orphan == <<"orphan">>

\* identifiers a request may carry: absent, "default", "acme" and "x/../acme"
Companies == {NoCompany, <<"default">>, <<"acme">>, <<"x", "..", "acme">>}

\* the item names and extensions of the images the model saves
ImageNames == {<<<<"tea">>, ".png">>} \cup {<<<<ToString(t)>>, ".jpeg">> : t \in 1..MaxClock}

\* a company identifier that names, through `${id}.json` under MENUS_DIR, the
\* orders document of company "beta"
MenuTraversal == <<"..", "data", "companies", "beta", "orders">>

Paths ==
  UNION {{OrdersFile(c), OrdersTmp(c), DesksFile(c), DesksTmp(c)} : c \in Companies}
  \cup UNION {{canonicalMenuPath(c), TmpOf(canonicalMenuPath(c)),
               companyMenuFile(c), TmpOf(companyMenuFile(c))} :
                 c \in (Companies \ {NoCompany}) \cup {MenuTraversal}}
  \cup {savePath(c, i[1], i[2]) : c \in Companies \ {NoCompany}, i \in ImageNames}

NoReply == [code |-> 0, order |-> EmptyBody, data |-> <<>>, log |-> ""]

\* the state after startServer on an empty data directory: ensureFilesExist has
\* written the legacy orders.json and the default company's orders.json
StartFiles ==
  [f \in Paths |->
     IF f \in {ORDERS_FILE, companyOrdersPath(<<"default">>)} THEN Stringify(<<>>)
     ELSE IF f \in {DESKS_FILE, companyDesksPath(<<"default">>)} THEN JsonText(defaultDesks)
     ELSE IF f \in {canonicalMenuPath(<<"default">>), companyMenuFile(<<"default">>)}
          THEN JsonText(defaultMenu)
     ELSE Absent]

\* the server idle on the files `files`
InitOn(files, budget) ==
  /\ fs = files
  /\ fd = [p \in Procs |-> NoFd]
  /\ pc = [p \in Procs |-> "idle"]
  /\ op = [p \in Procs |-> "none"]
  /\ company = [p \in Procs |-> NoCompany]
  /\ param = [p \in Procs |-> Undefined]
  /\ body = [p \in Procs |-> EmptyBody]
  /\ orders = [p \in Procs |-> <<>>]
  /\ json = [p \in Procs |-> Absent]
  /\ wfail = [p \in Procs |-> FALSE]
  /\ reply = [p \in Procs |-> NoReply]
  /\ now = 1
  /\ faults = budget
  /\ started = 0
  /\ server = "up"
  /\ tried = [p \in Procs |-> {}]
  /\ quiet = [p \in Procs |-> TRUE]
  /\ _ordersWriteLock = FALSE

InitWith(budget) == InitOn(StartFiles, budget)

\* whether the next filesystem call succeeds
Outcomes == IF faults > 0 THEN {TRUE, FALSE} ELSE {TRUE}
Spend(ok) == faults' = IF ok THEN faults ELSE faults - 1

\* the operations that write the desks document
DeskOps == {"saveDesks", "saveDesk"}
\* the writes of ensureFilesExist: writeOrders and writeDesks for the legacy
\* files (company null) and for "default", writeMenuCompany("default") in its
\* two writes, once for MENUS_DIR/default.json and once for companyMenuPath
EnsureOps ==
  {"ensureOrders", "ensureDesks", "ensureMenu", "ensureMenuCopy", "ensureDefMenu",
   "ensureDefMenuCopy"}
InitLog == "Initialization error"
\* writeMenuCompany writes the file under MENUS_DIR ("saveMenu"), then the copy
\* under data/companies ("saveMenuCopy")
Dest(p) ==
  CASE op[p] \in DeskOps \cup {"ensureDesks"} -> DesksFile(company[p])
    [] op[p] \in {"saveMenu", "ensureMenu", "ensureDefMenu"} -> canonicalMenuPath(company[p])
    [] op[p] \in {"saveMenuCopy", "ensureMenuCopy", "ensureDefMenuCopy"} ->
         companyMenuFile(company[p])
    [] OTHER -> OrdersFile(company[p])
Tmp(p) ==
  CASE op[p] \in DeskOps \cup {"ensureDesks"} -> DesksTmp(company[p])
    [] op[p] \in {"saveMenu", "saveMenuCopy", "ensureMenu", "ensureMenuCopy",
                  "ensureDefMenu", "ensureDefMenuCopy"} -> TmpOf(Dest(p))
    [] OTHER -> OrdersTmp(company[p])

\* ---------------------------------------------------- filesystem effects
\* open(path, "w"): creates the file or truncates it
OpenTrunc(f, path) == [f EXCEPT ![path] = EmptyFile]

\* the contents a write of `new` at offset 0 can leave in a file holding `old`
\* (no truncation in between: the tail of a longer old text stays)
Overwrite(old, new) ==
  IF old.st = "empty" \/ old = new THEN {new}
  ELSE IF old.st = "partial" THEN {new, Partial}
  ELSE IF old.doc = <<>> THEN {new}
  ELSE IF new.doc = <<>> THEN {Partial}
  ELSE {new, Partial}

\* rename(from, to): the file moves, open descriptors follow it, the file that
\* was at `to` is gone
RenameFs(f, from, to) == [f EXCEPT ![to] = f[from], ![from] = Absent]
RenameFd(d, from, to) ==
  [q \in Procs |-> IF d[q] = from THEN to ELSE IF d[q] = to THEN Orphan ELSE d[q]]

\* unlink(path)
UnlinkFs(f, path) == [f EXCEPT ![path] = Absent]
UnlinkFd(d, path) == [q \in Procs |-> IF d[q] = path THEN Orphan ELSE d[q]]

\* ------------------------------------------------------- writeJSONAtomic
Goto(p, l) == pc' = [pc EXCEPT ![p] = l]
Respond(p, code, order, data, log) ==
  reply' = [reply EXCEPT ![p] = [code |-> code, order |-> order, data |-> data, log |-> log]]
Try(p, tier) == tried' = [tried EXCEPT ![p] = @ \cup {tier}]

\* clearOrders after its reply: `await appendToSheet(order)` names two undefined
\* identifiers, the ReferenceError is caught and logged (ClearLog) and
\* res.status(500).json() throws after the reply was sent; the rejection is
\* unhandled, which ends the process or not, depending on the Node.js version
ClearLog == "Error deleting all orders"
AfterClearReply == \E exits \in BOOLEAN : server' = IF exits THEN "down" ELSE "up"

\* where ensureFilesExist goes on when the write of op[p] has returned
AfterEnsure(p) ==
  CASE op[p] = "ensureOrders" -> IF company[p] = NoCompany THEN "e_desks" ELSE "e_def_desks"
    [] op[p] = "ensureDesks" -> IF company[p] = NoCompany THEN "e_menu" ELSE "e_def_menu"
    [] op[p] \in {"ensureMenu", "ensureDefMenu"} -> "e_copy"
    [] op[p] = "ensureMenuCopy" -> "e_def_orders"
    [] op[p] = "ensureDefMenuCopy" -> "done"

\* what the caller of writeOrders does when writeJSONAtomic returns (ok) or
\* throws: every route answers 500 from its catch block, startServer logs the
\* error of ensureFilesExist
Return(p, ok) ==
  IF op[p] \in EnsureOps
  THEN /\ IF ok THEN Goto(p, AfterEnsure(p)) /\ UNCHANGED reply
             ELSE Goto(p, "done") /\ Respond(p, 0, EmptyBody, <<>>, InitLog)
       /\ UNCHANGED server
  ELSE IF ~ok THEN Goto(p, "done") /\ Respond(p, 500, EmptyBody, <<>>, "") /\ UNCHANGED server
  ELSE CASE op[p] = "create" ->
              Goto(p, "c_readback") /\ UNCHANGED <<reply, server>>
         [] op[p] = "saveMenu" ->
              Goto(p, "m_copy") /\ UNCHANGED <<reply, server>>
         [] op[p] = "saveMenuCopy" ->
              Goto(p, "m_readback") /\ UNCHANGED <<reply, server>>
         [] op[p] = "clear" ->
              Goto(p, "done") /\ Respond(p, 200, EmptyBody, <<>>, ClearLog) /\ AfterClearReply
         [] OTHER ->
              Goto(p, "done") /\ Respond(p, 200, body[p], <<>>, "") /\ UNCHANGED server

Locals == <<op, company, param, body, orders, json, now, started, quiet>>

\* await fs.mkdir(path.dirname(filePath), { recursive: true }), outside any try
WMkdir(p) ==
  /\ server = "up" /\ pc[p] = "w_mkdir"
  /\ \E ok \in Outcomes :
       /\ Spend(ok)
       /\ IF ok THEN Goto(p, "w_tmp_open") /\ UNCHANGED <<reply, server>>
          ELSE Return(p, FALSE)
  /\ UNCHANGED <<fs, fd, wfail, _ordersWriteLock, tried, Locals>>

\* the open waiting, as safeWriteOrdersFile does for _ordersWriteLock, until no
\* other call is between its temporary write and its rename
WTmpOpenLocked(p) ==
  /\ server = "up" /\ pc[p] = "w_tmp_open"
  /\ \A r \in Procs \ {p} : pc[r] \notin {"w_tmp_write", "w_rename1"}
  /\ \E ok \in Outcomes :
       /\ Spend(ok)
       /\ IF ok
          THEN /\ fs' = OpenTrunc(fs, Tmp(p))
               /\ fd' = [fd EXCEPT ![p] = Tmp(p)]
               /\ Goto(p, "w_tmp_write")
          ELSE /\ UNCHANGED <<fs, fd>>
               /\ Goto(p, "w_d1_open")
  /\ Try(p, "tmp")
  /\ UNCHANGED <<wfail, _ordersWriteLock, reply, server, Locals>>

\* fs.writeFile(tmpPath, json): the open
WTmpOpen(p) ==
  /\ server = "up" /\ pc[p] = "w_tmp_open"
  /\ \E ok \in Outcomes :
       /\ Spend(ok)
       /\ IF ok
          THEN /\ fs' = OpenTrunc(fs, Tmp(p))
               /\ fd' = [fd EXCEPT ![p] = Tmp(p)]
               /\ Goto(p, "w_tmp_write")
          ELSE /\ UNCHANGED <<fs, fd>>
               /\ Goto(p, "w_d1_open")
  /\ Try(p, "tmp")
  /\ UNCHANGED <<wfail, _ordersWriteLock, reply, server, Locals>>

\* the filesystem after a write through the descriptor of p that leaves `c`
WriteFd(p, c) ==
  IF fd[p] = Orphan THEN fs ELSE [fs EXCEPT ![fd[p]] = c]
FdContent(p) == IF fd[p] = Orphan THEN EmptyFile ELSE fs[fd[p]]

\* fs.writeFile(tmpPath, json): the write and the close
WTmpWrite(p) ==
  /\ server = "up" /\ pc[p] = "w_tmp_write"
  /\ \E ok \in Outcomes :
       /\ Spend(ok)
       /\ IF ok
          THEN /\ \E c \in Overwrite(FdContent(p), json[p]) : fs' = WriteFd(p, c)
               /\ Goto(p, "w_rename1")
          ELSE /\ fs' = WriteFd(p, Partial)
               /\ Goto(p, "w_d1_open")
  /\ fd' = [fd EXCEPT ![p] = NoFd]
  /\ UNCHANGED <<wfail, _ordersWriteLock, reply, server, tried, Locals>>

\* tmp write failed: fs.writeFile(filePath, json), the open
WDirect1Open(p) ==
  /\ server = "up" /\ pc[p] = "w_d1_open"
  /\ \E ok \in Outcomes :
       /\ Spend(ok)
       /\ IF ok
          THEN /\ fs' = OpenTrunc(fs, Dest(p))
               /\ fd' = [fd EXCEPT ![p] = Dest(p)]
               /\ Goto(p, "w_d1_write")
               /\ UNCHANGED <<reply, server>>
          ELSE /\ UNCHANGED <<fs, fd>>
               /\ Return(p, FALSE)
  /\ Try(p, "direct1")
  /\ UNCHANGED <<wfail, _ordersWriteLock, Locals>>

\* the direct write with its failure swallowed instead of rethrown
WDirect1WriteSwallows(p) ==
  /\ server = "up" /\ pc[p] = "w_d1_write"
  /\ \E ok \in Outcomes :
       /\ Spend(ok)
       /\ IF ok
          THEN \E c \in Overwrite(FdContent(p), json[p]) : fs' = WriteFd(p, c)
          ELSE fs' = WriteFd(p, Partial)
       /\ Return(p, TRUE)
  /\ fd' = [fd EXCEPT ![p] = NoFd]
  /\ UNCHANGED <<wfail, _ordersWriteLock, tried, Locals>>

\* tmp write failed: fs.writeFile(filePath, json), the write and the close
WDirect1Write(p) ==
  /\ server = "up" /\ pc[p] = "w_d1_write"
  /\ \E ok \in Outcomes :
       /\ Spend(ok)
       /\ IF ok
          THEN \E c \in Overwrite(FdContent(p), json[p]) : fs' = WriteFd(p, c)
          ELSE fs' = WriteFd(p, Partial)
       /\ Return(p, ok)
  /\ fd' = [fd EXCEPT ![p] = NoFd]
  /\ UNCHANGED <<wfail, _ordersWriteLock, tried, Locals>>

\* fs.rename(tmpPath, filePath): ENOENT when the temporary file is gone
CanRename(p) == fs[Tmp(p)].st # "absent"
RenameOutcomes(p) == IF CanRename(p) THEN Outcomes ELSE {FALSE}
SpendRename(p, ok) == faults' = IF ok \/ ~CanRename(p) THEN faults ELSE faults - 1

\* first rename tmp -> final
WRename1(p) ==
  /\ server = "up" /\ pc[p] = "w_rename1"
  /\ \E ok \in RenameOutcomes(p) :
       /\ SpendRename(p, ok)
       /\ IF ok
          THEN /\ fs' = RenameFs(fs, Tmp(p), Dest(p))
               /\ fd' = RenameFd(fd, Tmp(p), Dest(p))
               /\ Return(p, TRUE)
          ELSE /\ UNCHANGED <<fs, fd>>
               /\ Goto(p, "w_unlink")
               /\ UNCHANGED <<reply, server>>
  /\ Try(p, "rename1")
  /\ UNCHANGED <<wfail, _ordersWriteLock, Locals>>

\* await fs.unlink(filePath).catch(() => {})
WUnlink(p) ==
  /\ server = "up" /\ pc[p] = "w_unlink"
  /\ \E ok \in Outcomes :
       /\ Spend(ok)
       /\ IF ok
          THEN fs' = UnlinkFs(fs, Dest(p)) /\ fd' = UnlinkFd(fd, Dest(p))
          ELSE UNCHANGED <<fs, fd>>
  /\ Goto(p, "w_rename2")
  /\ Try(p, "unlink")
  /\ UNCHANGED <<wfail, _ordersWriteLock, reply, server, Locals>>

\* second rename tmp -> final
WRename2(p) ==
  /\ server = "up" /\ pc[p] = "w_rename2"
  /\ \E ok \in RenameOutcomes(p) :
       /\ SpendRename(p, ok)
       /\ IF ok
          THEN /\ fs' = RenameFs(fs, Tmp(p), Dest(p))
               /\ fd' = RenameFd(fd, Tmp(p), Dest(p))
               /\ Return(p, TRUE)
          ELSE /\ UNCHANGED <<fs, fd>>
               /\ Goto(p, "w_d2_open")
               /\ UNCHANGED <<reply, server>>
  /\ Try(p, "rename2")
  /\ UNCHANGED <<wfail, _ordersWriteLock, Locals>>

\* both renames failed: fs.writeFile(filePath, json), the open
WDirect2Open(p) ==
  /\ server = "up" /\ pc[p] = "w_d2_open"
  /\ \E ok \in Outcomes :
       /\ Spend(ok)
       /\ IF ok
          THEN /\ fs' = OpenTrunc(fs, Dest(p))
               /\ fd' = [fd EXCEPT ![p] = Dest(p)]
               /\ Goto(p, "w_d2_write")
               /\ UNCHANGED wfail
          ELSE /\ UNCHANGED <<fs, fd>>
               /\ Goto(p, "w_unlink_tmp")
               /\ wfail' = [wfail EXCEPT ![p] = TRUE]
  /\ Try(p, "direct2")
  /\ UNCHANGED <<reply, server, _ordersWriteLock, Locals>>

\* both renames failed: fs.writeFile(filePath, json), the write and the close
WDirect2Write(p) ==
  /\ server = "up" /\ pc[p] = "w_d2_write"
  /\ \E ok \in Outcomes :
       /\ Spend(ok)
       /\ IF ok
          THEN \E c \in Overwrite(FdContent(p), json[p]) : fs' = WriteFd(p, c)
          ELSE fs' = WriteFd(p, Partial)
       /\ wfail' = [wfail EXCEPT ![p] = ~ok]
  /\ fd' = [fd EXCEPT ![p] = NoFd]
  /\ Goto(p, "w_unlink_tmp")
  /\ UNCHANGED <<reply, server, tried, _ordersWriteLock, Locals>>

\* await fs.unlink(tmpPath).catch(() => {}), then return, or throw finalErr
WUnlinkTmp(p) ==
  /\ server = "up" /\ pc[p] = "w_unlink_tmp"
  /\ \E ok \in Outcomes :
       /\ Spend(ok)
       /\ IF ok
          THEN fs' = UnlinkFs(fs, Tmp(p)) /\ fd' = UnlinkFd(fd, Tmp(p))
          ELSE UNCHANGED <<fs, fd>>
  /\ Return(p, ~wfail[p])
  /\ wfail' = [wfail EXCEPT ![p] = FALSE]
  /\ UNCHANGED <<tried, _ordersWriteLock, Locals>>

\* writeJSONAtomic(obj, filePath, tmpPath), one awaited call per step: the
\* temporary write and the rename tiers, which run also when no call fails by
\* itself (a rename finds the temporary file taken by a concurrent call)
RenameTiers(p) ==
  \/ WMkdir(p) \/ WTmpOpen(p) \/ WTmpWrite(p)
  \/ WRename1(p) \/ WUnlink(p) \/ WRename2(p) \/ WDirect2Open(p) \/ WDirect2Write(p)
  \/ WUnlinkTmp(p)
\* the tier after a failed temporary write
DirectTier(p) == WDirect1Open(p) \/ WDirect1Write(p)
writeJSONAtomic(p) == RenameTiers(p) \/ DirectTier(p)

InWrite(q) ==
  pc[q] \in {"w_mkdir", "w_tmp_open", "w_tmp_write", "w_d1_open", "w_d1_write",
             "w_rename1", "w_unlink", "w_rename2", "w_d2_open", "w_d2_write",
             "w_unlink_tmp"}

\* writeOrders(orders, companyId) is called by p for company c: JSON.stringify
\* runs, then the mkdir is awaited
writeOrders(p, c, X) ==
  /\ json' = [json EXCEPT ![p] = Stringify(X)]
  /\ Goto(p, "w_mkdir")
  /\ tried' = [tried EXCEPT ![p] = {}]
  /\ quiet' = [q \in Procs |->
                 IF q = p
                 THEN \A r \in Procs \ {p} : InWrite(r) => OrdersFile(company[r]) # OrdersFile(c)
                 ELSE quiet[q] /\ (pc[q] = "idle" \/ OrdersFile(company[q]) # OrdersFile(c))]

\* --------------------------------------------- readOrders / writeOrders
\* sample orders of the data model
OrderA == MkOrder(Str("A"), NumStr(1), Arr(<<Str("Tea")>>), Str("pending"))
OrderB == MkOrder(Str("B"), NumStr(2), Arr(<<>>), Str("completed"))
Docs == {<<OrderA>>, <<OrderB, OrderA>>}

\* the companies of the store model: absent and "acme"
StoreCompanies == {NoCompany, <<"acme">>}

\* a request arrives; idle processes are interchangeable, the lowest takes it
Arrive(p, o, c, max) ==
  /\ server = "up" /\ pc[p] = "idle" /\ started < max
  /\ \A q \in Procs : q < p => pc[q] # "idle"
  /\ started' = started + 1
  /\ op' = [op EXCEPT ![p] = o]
  /\ company' = [company EXCEPT ![p] = c]

Begin(p, o, c) == Arrive(p, o, c, MaxReqs)

\* the calls of the store model that overlap are on one company's document
Together(c) == \A q \in Procs : pc[q] # "idle" => company[q] = c

\* a caller invokes writeOrders(X, c)
CallWriteOrders(p) ==
  \E c \in StoreCompanies, X \in Docs :
    /\ Begin(p, "writeOrders", c) /\ Together(c)
    /\ orders' = [orders EXCEPT ![p] = X]
    /\ writeOrders(p, c, X)
    /\ UNCHANGED <<fs, fd, param, body, wfail, _ordersWriteLock, reply, now, faults, server>>

\* a caller invokes readOrders(c): fs.readFile is awaited
CallReadOrders(p) ==
  \E c \in StoreCompanies :
    /\ Begin(p, "readOrders", c) /\ Together(c)
    /\ Goto(p, "r_read")
    /\ UNCHANGED <<fs, fd, param, body, orders, json, wfail, _ordersWriteLock, reply, now, faults,
                   server, tried, quiet>>

\* readOrders(companyId) returns readJSON(file, [])
ReadOrdersReturn(p) ==
  /\ server = "up" /\ pc[p] = "r_read"
  /\ \E ok \in Outcomes :
       /\ Spend(ok)
       /\ LET r == readJSON(fs[Dest(p)], ~ok, <<>>) IN
            IF r.threw THEN Respond(p, 500, EmptyBody, <<>>, r.log)
            ELSE Respond(p, 200, EmptyBody, r.value, r.log)
  /\ Goto(p, "done")
  /\ UNCHANGED <<fs, fd, wfail, _ordersWriteLock, server, tried, Locals>>

\* the response is out; the process is free for the next request
Finish(p) ==
  /\ server = "up" /\ pc[p] = "done" /\ started < MaxReqs
  /\ Goto(p, "idle")
  /\ op' = [op EXCEPT ![p] = "none"]
  /\ orders' = [orders EXCEPT ![p] = <<>>]
  /\ json' = [json EXCEPT ![p] = Absent]
  /\ body' = [body EXCEPT ![p] = EmptyBody]
  /\ param' = [param EXCEPT ![p] = Undefined]
  /\ company' = [company EXCEPT ![p] = NoCompany]
  /\ reply' = [reply EXCEPT ![p] = NoReply]
  /\ tried' = [tried EXCEPT ![p] = {}]
  /\ quiet' = [quiet EXCEPT ![p] = TRUE]
  /\ UNCHANGED <<fs, fd, wfail, _ordersWriteLock, now, faults, started, server>>

InitStore == InitWith(MaxFaults)
NextStore ==
  \E p \in Procs :
    \/ CallWriteOrders(p) \/ CallReadOrders(p) \/ ReadOrdersReturn(p)
    \/ writeJSONAtomic(p) \/ Finish(p)
SpecStore == InitStore /\ [][NextStore]_vars

\* ------------------------------------------------------- order routes
\* orders.some((o) => String(o.id) === id)
HasId(os, id) == \E i \in 1..Len(os) : String(os[i].id) = id
\* orders.findIndex((o) => String(o.id) === id), 0 for -1
FindIndex(os, id) ==
  IF HasId(os, id)
  THEN CHOOSE i \in 1..Len(os) :
         String(os[i].id) = id /\ \A j \in 1..(i - 1) : String(os[j].id) # id
  ELSE 0

\* a || b
Or(a, b) == IF Truthy(a) THEN a ELSE b

\* an entry of itemsDetailed; isNull: the entry is null
Detail(name, quantity) ==
  [isNull |-> FALSE, name |-> name, value |-> Undefined, id |-> Undefined,
   quantity |-> quantity]
NullDetail ==
  [isNull |-> TRUE, name |-> Undefined, value |-> Undefined, id |-> Undefined,
   quantity |-> Undefined]

\* Number.isFinite(Number(q)) ? Math.max(0, parseInt(q, 10)) : 0, where NaN
\* (the parseInt of null or "") fails the later qty > 0 like 0 does
Qty(q) ==
  IF q.t = "num" \/ (q.t = "str" /\ q.txt = "#")
  THEN (IF q.n > 0 THEN q.n ELSE 0)
  ELSE 0

RECURSIVE Copies(_, _)
Copies(x, n) == IF n <= 0 THEN <<>> ELSE <<x>> \o Copies(x, n - 1)

RECURSIVE DeriveItems(_)
\* the loop over newOrder.itemsDetailed
DeriveItems(ds) ==
  IF ds = <<>> THEN <<>>
  ELSE LET d == Head(ds)
           name == Or(Or(d.name, d.value), d.id)
           qty == Qty(d.quantity)
       IN (IF Truthy(name) /\ qty > 0 THEN Copies(name, qty) ELSE <<>>)
          \o DeriveItems(Tail(ds))

Derives(b) == ~IsArray(b.items) /\ IsArray(b.itemsDetailed)
\* d.quantity of a null entry is a TypeError
DeriveThrows(b) ==
  Derives(b) /\ \E i \in 1..Len(b.itemsDetailed.els) : b.itemsDetailed.els[i].isNull

Missing(x) == x.t \in {"undefined", "null"}

\* the synchronous head of POST /api/orders: items derived, desk coerced,
\* items defaulted
PreNormalize(b) ==
  LET items1 == IF Derives(b) THEN Arr(DeriveItems(b.itemsDetailed.els)) ELSE b.items
  IN [b EXCEPT !.items = IF IsArray(items1) THEN items1 ELSE Arr(<<>>),
               !.desk = IF Missing(b.desk) THEN b.desk ELSE String(b.desk)]

\* the defaults of POST /api/orders without the prep time fields
FinalizeNoPrepTimes(o, t) ==
  LET timestamp == IF Truthy(o.timestamp) THEN o.timestamp ELSE IsoNow(t)
      status == IF Truthy(o.status) THEN o.status ELSE Str("pending")
  IN [o EXCEPT
        !.timestamp = timestamp,
        !.status = status,
        !.teaboyName = IF ~Truthy(o.teaboyName) /\ Truthy(o.serviceAreaName)
                       THEN o.serviceAreaName ELSE o.teaboyName,
        !.serviceAreaName = IF Truthy(o.serviceAreaName) THEN Undefined
                            ELSE o.serviceAreaName]

\* the defaults POST /api/orders applies before the push
Finalize(o, t) ==
  LET timestamp == IF Truthy(o.timestamp) THEN o.timestamp ELSE IsoNow(t)
      status == IF Truthy(o.status) THEN o.status ELSE Str("pending")
  IN [o EXCEPT
        !.timestamp = timestamp,
        !.status = status,
        !.startedAt = IF Truthy(o.startedAt) THEN o.startedAt ELSE timestamp,
        !.completedAt = IF status = Str("completed") /\ ~Truthy(o.completedAt)
                        THEN IsoNow(t) ELSE o.completedAt,
        !.teaboyName = IF ~Truthy(o.teaboyName) /\ Truthy(o.serviceAreaName)
                       THEN o.serviceAreaName ELSE o.teaboyName,
        !.serviceAreaName = IF Truthy(o.serviceAreaName) THEN Undefined
                            ELSE o.serviceAreaName]

\* a key the payload carries overrides the order's
Over(new, old) == IF new.t = "undefined" THEN old ELSE new

\* the merge taking the id from the payload when it carries one
MergedUnpinned(old, b) ==
  [id |-> Over(b.id, old.id),
   desk |-> Over(b.desk, old.desk),
   items |-> Over(b.items, old.items),
   itemsDetailed |-> Over(b.itemsDetailed, old.itemsDetailed),
   status |-> Over(b.status, old.status),
   timestamp |-> Over(b.timestamp, old.timestamp),
   startedAt |-> Over(b.startedAt, old.startedAt),
   completedAt |-> Over(b.completedAt, old.completedAt),
   teaboyName |-> Over(b.teaboyName, old.teaboyName),
   serviceAreaName |-> Over(b.serviceAreaName, old.serviceAreaName),
   rating |-> IF b.rating.set THEN b.rating ELSE old.rating]

\* { ...orders[idx], ...req.body, id: orders[idx].id }
Merged(old, b) ==
  [id |-> old.id,
   desk |-> Over(b.desk, old.desk),
   items |-> Over(b.items, old.items),
   itemsDetailed |-> Over(b.itemsDetailed, old.itemsDetailed),
   status |-> Over(b.status, old.status),
   timestamp |-> Over(b.timestamp, old.timestamp),
   startedAt |-> Over(b.startedAt, old.startedAt),
   completedAt |-> Over(b.completedAt, old.completedAt),
   teaboyName |-> Over(b.teaboyName, old.teaboyName),
   serviceAreaName |-> Over(b.serviceAreaName, old.serviceAreaName),
   rating |-> IF b.rating.set THEN b.rating ELSE old.rating]

\* the update stamping completedAt whenever the status is completed
UpdateAlwaysStamps(old, b, t) ==
  LET m == Merged(old, b)
  IN [m EXCEPT
        !.desk = IF Missing(m.desk) THEN m.desk ELSE String(m.desk),
        !.teaboyName = IF ~Truthy(m.teaboyName) /\ Truthy(m.serviceAreaName)
                       THEN m.serviceAreaName ELSE m.teaboyName,
        !.serviceAreaName = IF Truthy(m.serviceAreaName) THEN Undefined
                            ELSE m.serviceAreaName,
        !.completedAt = IF m.status = Str("completed") THEN IsoNow(t) ELSE m.completedAt,
        !.startedAt = IF Truthy(m.startedAt) THEN m.startedAt
                      ELSE IF Truthy(m.timestamp) THEN m.timestamp ELSE IsoNow(t)]

\* the merge and what follows it in PUT /api/orders/:id
Update(old, b, t) ==
  LET m == Merged(old, b)
  IN [m EXCEPT
        !.desk = IF Missing(m.desk) THEN m.desk ELSE String(m.desk),
        !.teaboyName = IF ~Truthy(m.teaboyName) /\ Truthy(m.serviceAreaName)
                       THEN m.serviceAreaName ELSE m.teaboyName,
        !.serviceAreaName = IF Truthy(m.serviceAreaName) THEN Undefined
                            ELSE m.serviceAreaName,
        !.completedAt = IF m.status = Str("completed") /\ ~Truthy(m.completedAt)
                        THEN IsoNow(t) ELSE m.completedAt,
        !.startedAt = IF Truthy(m.startedAt) THEN m.startedAt
                      ELSE IF Truthy(m.timestamp) THEN m.timestamp ELSE IsoNow(t)]

\* orders.splice(idx): everything from idx on is removed
SpliceToEnd(os, idx) == SubSeq(os, 1, idx - 1)

\* orders.splice(idx, 1)
Splice(os, idx) == SubSeq(os, 1, idx - 1) \o SubSeq(os, idx + 1, Len(os))

\* --------------------------------------------------------- the requests
\* identifiers the requests of the routes model carry: "acme" and "x/../acme",
\* two strings that path.join resolves to one directory
RouteCompanies == {<<"acme">>, <<"x", "..", "acme">>}

\* bodies of POST /api/orders: without id; with id 7; with id "7"
NoIdBody == MkOrder(Undefined, Num(1), Arr(<<Str("Tea")>>), Undefined)
CreateBodies ==
  { NoIdBody,
    MkOrder(Num(7), Str("d2"), Undefined, Undefined),
    MkOrder(NumStr(7), NumStr(3), Arr(<<>>), Str("completed")) }

\* :id of PUT, DELETE and rating requests
RouteIds == {NumStr(7)}

\* bodies of PUT /api/orders/:id
UpdateBodies ==
  { [EmptyBody EXCEPT !.status = Str("completed")],
    [EmptyBody EXCEPT !.id = Str("Z"), !.desk = Num(3)] }

\* rating of POST /api/orders/:id/rating
Ratings == {Num(5), Num(0)}

Answer(p, code, order, data) == Goto(p, "done") /\ Respond(p, code, order, data, "")

\* await readOrders(companyId) resumes with this array
ReadOrders(p, ok) == readJSON(fs[Dest(p)], ~ok, <<>>).value

\* POST /api/orders?company=c with body b, up to its first await
CreateRequest(p, c, b) ==
    /\ Begin(p, "create", c)
    /\ IF DeriveThrows(b)
       THEN Answer(p, 500, EmptyBody, <<>>) /\ UNCHANGED body
       ELSE LET n == PreNormalize(b)
                withId == [n EXCEPT !.id = String(n.id)]
            IN IF ~Truthy(n.id)
               THEN body' = [body EXCEPT ![p] = n] /\ Goto(p, "c_read1") /\ UNCHANGED reply
               ELSE IF ~Truthy(withId.id) \/ Missing(withId.desk)
                    THEN Answer(p, 400, EmptyBody, <<>>) /\ UNCHANGED body
                    ELSE /\ body' = [body EXCEPT ![p] = withId]
                         /\ Goto(p, "c_read2") /\ UNCHANGED reply
    /\ UNCHANGED <<fs, fd, param, orders, json, wfail, _ordersWriteLock, now, faults, server, tried, quiet>>

ReqCreate(p) == \E c \in RouteCompanies, b \in CreateBodies : CreateRequest(p, c, b)

\* the do-while leaving at the first candidate
AcceptsAny(existing, candidate) == TRUE

\* the do-while keeps a candidate unless an existing order has it as id
Accepts(existing, candidate) == ~HasId(existing, candidate)

\* POST /api/orders without id: ordersExisting is read, an id is generated, the
\* required fields are checked
CreateGenerateId(p) ==
  /\ server = "up" /\ pc[p] = "c_read1"
  /\ \E ok \in Outcomes :
       /\ Spend(ok)
       /\ \E rnd \in 0..MaxRand :
            LET candidate == GenId(now, rnd) IN
              /\ Accepts(ReadOrders(p, ok), candidate)
              /\ IF Missing(body[p].desk)
                 THEN Answer(p, 400, EmptyBody, <<>>) /\ UNCHANGED body
                 ELSE /\ body' = [body EXCEPT ![p].id = candidate]
                      /\ Goto(p, "c_read2") /\ UNCHANGED reply
  /\ UNCHANGED <<fs, fd, op, company, param, orders, json, wfail, _ordersWriteLock, now, started,
                 server, tried, quiet>>

\* orders.some((o) => String(o.id) === idStr) of the 409 check, left out
ConflictUnchecked(os, idStr) == FALSE

\* orders.some((o) => String(o.id) === idStr) of the 409 check
Conflict(os, idStr) == HasId(os, idStr)

\* POST /api/orders: orders is read, a duplicate id answers 409, the defaults
\* are applied, the order is pushed and writeOrders is called
CreateCheckAndWrite(p) ==
  /\ server = "up" /\ pc[p] = "c_read2"
  /\ \E ok \in Outcomes :
       /\ Spend(ok)
       /\ LET os == ReadOrders(p, ok)
              idStr == String(body[p].id)
              newOrder == [Finalize(body[p], now) EXCEPT !.id = idStr]
          IN IF Conflict(os, idStr)
             THEN /\ Answer(p, 409, EmptyBody, <<>>)
                  /\ UNCHANGED <<body, orders, json, tried, quiet>>
             ELSE /\ body' = [body EXCEPT ![p] = newOrder]
                  /\ orders' = [orders EXCEPT ![p] = Append(os, newOrder)]
                  /\ writeOrders(p, company[p], Append(os, newOrder))
                  /\ UNCHANGED reply
  /\ UNCHANGED <<fs, fd, op, company, param, wfail, _ordersWriteLock, now, started, server>>

\* POST /api/orders after the write: the read for the log line, then 201
CreateReadBack(p) ==
  /\ server = "up" /\ pc[p] = "c_readback"
  /\ \E ok \in Outcomes : Spend(ok)
  /\ Answer(p, 201, body[p], <<>>)
  /\ UNCHANGED <<fs, fd, wfail, _ordersWriteLock, server, tried, Locals>>

\* PUT /api/orders/:id up to its first await
UpdateRequest(p, c, id, b) ==
    /\ Begin(p, "update", c)
    /\ param' = [param EXCEPT ![p] = String(id)]
    /\ body' = [body EXCEPT ![p] = b]
    /\ Goto(p, "u_read")
    /\ UNCHANGED <<fs, fd, orders, json, wfail, _ordersWriteLock, reply, now, faults, server, tried, quiet>>

ReqUpdate(p) ==
  \E c \in RouteCompanies, id \in RouteIds, b \in UpdateBodies : UpdateRequest(p, c, id, b)

\* one payload as the map of PUT /api/orders/bulk normalises it
BulkNormalize(o, t, rnd) ==
  LET items1 == IF Derives(o) THEN Arr(DeriveItems(o.itemsDetailed.els)) ELSE o.items
  IN [o EXCEPT
        !.id = IF o.id.t # "undefined" THEN String(o.id) ELSE GenId(t, rnd),
        !.desk = IF Missing(o.desk) THEN o.desk ELSE String(o.desk),
        !.timestamp = IF Truthy(o.timestamp) THEN o.timestamp ELSE IsoNow(t),
        !.status = IF Truthy(o.status) THEN o.status ELSE Str("pending"),
        !.items = IF IsArray(items1) THEN items1 ELSE Arr(<<>>)]

\* bodies of PUT /api/orders/bulk: no order, two orders
BulkPayloads ==
  { <<>>,
    <<MkOrder(Num(8), Num(1), Arr(<<Str("Tea")>>), Undefined),
      MkOrder(Str("B"), Str("d2"), Undefined, Str("completed"))>> }

\* PUT /api/orders/bulk: app.put("/api/orders/:id") is registered first and
\* takes the request with id "bulk"; the array body has none of an order's keys
ReqBulk(p) ==
  \E c \in RouteCompanies :
    /\ Begin(p, "update", c)
    /\ param' = [param EXCEPT ![p] = Str("bulk")]
    /\ body' = [body EXCEPT ![p] = EmptyBody]
    /\ Goto(p, "u_read")
    /\ UNCHANGED <<fs, fd, orders, json, wfail, _ordersWriteLock, reply, now, faults, server, tried, quiet>>

\* PUT /api/orders/:id: orders is read, 404 or the merge, then writeOrders
UpdateMerge(p) ==
  /\ server = "up" /\ pc[p] = "u_read"
  /\ \E ok \in Outcomes :
       /\ Spend(ok)
       /\ LET os == ReadOrders(p, ok)
              idx == FindIndex(os, param[p])
          IN IF idx = 0
             THEN /\ Answer(p, 404, EmptyBody, <<>>)
                  /\ UNCHANGED <<body, orders, json, tried, quiet>>
             ELSE LET updated == Update(os[idx], body[p], now) IN
                  /\ body' = [body EXCEPT ![p] = updated]
                  /\ orders' = [orders EXCEPT ![p] = [os EXCEPT ![idx] = updated]]
                  /\ writeOrders(p, company[p], [os EXCEPT ![idx] = updated])
                  /\ UNCHANGED reply
  /\ UNCHANGED <<fs, fd, op, company, param, wfail, _ordersWriteLock, now, started, server>>

\* !rating || rating < 1 || rating > 5
RatingRejected(rating) == ~Truthy(rating) \/ Lt(rating, 1) \/ Gt(rating, 5)

\* POST /api/orders/:id/rating up to its first await
RateRequest(p, c, id, rating) ==
    /\ Begin(p, "rate", c)
    /\ param' = [param EXCEPT ![p] = String(id)]
    /\ IF RatingRejected(rating)
       THEN Answer(p, 400, EmptyBody, <<>>) /\ UNCHANGED body
       ELSE /\ body' = [body EXCEPT ![p].rating =
                          [set |-> TRUE, stars |-> rating, review |-> Str(""),
                           timestamp |-> Undefined]]
            /\ Goto(p, "rate_read") /\ UNCHANGED reply
    /\ UNCHANGED <<fs, fd, orders, json, wfail, _ordersWriteLock, now, faults, server, tried, quiet>>

ReqRate(p) ==
  \E c \in RouteCompanies, id \in RouteIds, rating \in Ratings : RateRequest(p, c, id, rating)

\* POST /api/orders/:id/rating: orders is read, 404 or the rating is set
RateSet(p) ==
  /\ server = "up" /\ pc[p] = "rate_read"
  /\ \E ok \in Outcomes :
       /\ Spend(ok)
       /\ LET os == ReadOrders(p, ok)
              idx == FindIndex(os, param[p])
          IN IF idx = 0
             THEN /\ Answer(p, 404, EmptyBody, <<>>)
                  /\ UNCHANGED <<body, orders, json, tried, quiet>>
             ELSE LET rated == [os[idx] EXCEPT !.rating =
                                  [body[p].rating EXCEPT !.timestamp = IsoNow(now)]] IN
                  /\ body' = [body EXCEPT ![p] = rated]
                  /\ orders' = [orders EXCEPT ![p] = [os EXCEPT ![idx] = rated]]
                  /\ writeOrders(p, company[p], [os EXCEPT ![idx] = rated])
                  /\ UNCHANGED reply
  /\ UNCHANGED <<fs, fd, op, company, param, wfail, _ordersWriteLock, now, started, server>>

\* DELETE /api/orders/:id up to its first await
DeleteRequest(p, c, id) ==
    /\ Begin(p, "delete", c)
    /\ param' = [param EXCEPT ![p] = String(id)]
    /\ Goto(p, "d_read")
    /\ UNCHANGED <<fs, fd, body, orders, json, wfail, _ordersWriteLock, reply, now, faults, server,
                   tried, quiet>>

ReqDelete(p) == \E c \in RouteCompanies, id \in RouteIds : DeleteRequest(p, c, id)

\* DELETE /api/orders/:id: orders is read, 404 or the splice, then writeOrders
DeleteSplice(p) ==
  /\ server = "up" /\ pc[p] = "d_read"
  /\ \E ok \in Outcomes :
       /\ Spend(ok)
       /\ LET os == ReadOrders(p, ok)
              idx == FindIndex(os, param[p])
          IN IF idx = 0
             THEN /\ Answer(p, 404, EmptyBody, <<>>)
                  /\ UNCHANGED <<body, orders, json, tried, quiet>>
             ELSE /\ body' = [body EXCEPT ![p] = os[idx]]
                  /\ orders' = [orders EXCEPT ![p] = Splice(os, idx)]
                  /\ writeOrders(p, company[p], Splice(os, idx))
                  /\ UNCHANGED reply
  /\ UNCHANGED <<fs, fd, op, company, param, wfail, _ordersWriteLock, now, started, server>>

\* DELETE /api/orders: writeOrders([], companyId)
ClearRequest(p, c) ==
    /\ Begin(p, "clear", c)
    /\ orders' = [orders EXCEPT ![p] = <<>>]
    /\ writeOrders(p, c, <<>>)
    /\ UNCHANGED <<fs, fd, param, body, wfail, _ordersWriteLock, reply, now, faults, server>>

ReqClear(p) == \E c \in RouteCompanies : ClearRequest(p, c)

\* GET /api/orders up to its await
ReqList(p) ==
  \E c \in RouteCompanies :
    /\ Begin(p, "list", c)
    /\ Goto(p, "l_read")
    /\ UNCHANGED <<fs, fd, param, body, orders, json, wfail, _ordersWriteLock, reply, now, faults,
                   server, tried, quiet>>

\* GET /api/orders: res.json(orders)
ListReply(p) ==
  /\ server = "up" /\ pc[p] = "l_read"
  /\ \E ok \in Outcomes :
       /\ Spend(ok)
       /\ Answer(p, 200, EmptyBody, ReadOrders(p, ok))
  /\ UNCHANGED <<fs, fd, wfail, _ordersWriteLock, server, tried, Locals>>

\* the clock advances
Tick ==
  /\ server = "up" /\ now < MaxClock
  /\ \E p \in Procs : pc[p] \in {"c_read1", "c_read2", "u_read", "rate_read"}
  /\ now' = now + 1
  /\ UNCHANGED <<fs, fd, pc, op, company, param, body, orders, json, wfail, _ordersWriteLock, reply,
                 faults, started, server, tried, quiet>>

\* the routes model: the order routes on a filesystem whose calls fail only
\* for what the model holds (a missing temporary file)
Init == InitWith(0)
Next ==
  \/ Tick
  \/ \E p \in Procs :
       \/ ReqCreate(p) \/ CreateGenerateId(p) \/ CreateCheckAndWrite(p)
       \/ CreateReadBack(p)
       \/ ReqUpdate(p) \/ ReqBulk(p) \/ UpdateMerge(p)
       \/ ReqRate(p) \/ RateSet(p)
       \/ ReqDelete(p) \/ DeleteSplice(p)
       \/ ReqClear(p)
       \/ ReqList(p) \/ ListReply(p)
       \/ RenameTiers(p) \/ Finish(p)
Spec == Init /\ [][Next]_vars

\* the concurrent-creation model: every process handles one POST /api/orders
\* without id for company "acme"
ReqCreateNoId(p) == CreateRequest(p, <<"acme">>, NoIdBody)
InitCreate == InitWith(0)
NextCreate ==
  \/ Tick
  \/ \E p \in Procs :
       \/ ReqCreateNoId(p) \/ CreateGenerateId(p) \/ CreateCheckAndWrite(p)
       \/ CreateReadBack(p) \/ RenameTiers(p)
SpecCreate == InitCreate /\ [][NextCreate]_vars

\* the sequential model: one request at a time, all for the absent company
\* identifier or all for "default", with the payloads the normalisation
\* distinguishes
SeqCompanies == {NoCompany, <<"default">>}
Tea2 == Detail(Str("Tea"), Num(2))
SeqCreateBodies ==
  { MkOrder(Num(7), Num(1), Arr(<<Str("Tea")>>), Undefined),
    MkOrder(Undefined, Null, Arr(<<Str("Tea")>>), Undefined),
    MkOrder(Num(7), Undefined, Arr(<<>>), Undefined),
    MkOrder(Num(7), Str("d2"), Undefined, Str("completed")),
    [MkOrder(Num(7), Num(1), Undefined, Undefined) EXCEPT !.itemsDetailed =
       Arr(<<Tea2, [Detail(Undefined, NumStr(1)) EXCEPT !.value = Str("Milk")],
             Detail(Str("Coffee"), Num(0)), Detail(Undefined, Num(1)),
             Detail(Str("Juice"), Str("many"))>>)],
    [MkOrder(Num(7), Null, Undefined, Undefined) EXCEPT !.itemsDetailed =
       Arr(<<Tea2, NullDetail>>)],
    [MkOrder(Num(7), Num(1), Undefined, Undefined) EXCEPT !.itemsDetailed =
       Arr(<<Tea2, NullDetail>>)],
    [MkOrder(Num(7), Num(1), Arr(<<Num(5)>>), Str("bogus")) EXCEPT
       !.timestamp = IsoNow(MaxClock + 1)],
    [MkOrder(Num(7), Num(1), Arr(<<>>), Str("completed")) EXCEPT
       !.startedAt = Str(""), !.completedAt = Null],
    [MkOrder(Num(7), Num(1), Arr(<<>>), Str("completed")) EXCEPT
       !.startedAt = Str("early"), !.completedAt = Str("late")] }
SeqUpdateBodies ==
  { [EmptyBody EXCEPT !.status = Str("completed")],
    [EmptyBody EXCEPT !.id = Str("Z"), !.desk = Num(3)],
    [EmptyBody EXCEPT !.desk = Null, !.items = Null],
    [EmptyBody EXCEPT !.status = Str("completed"), !.completedAt = Null],
    [EmptyBody EXCEPT !.status = Str("completed"), !.startedAt = Null, !.timestamp = Null],
    [EmptyBody EXCEPT !.rating = [NoRating EXCEPT !.set = TRUE, !.stars = Num(9)]] }
\* ratings of the rating route: in range, zero, above range, absent, a word
SeqRatings == {Num(5), Num(0), Num(6), Undefined, Str("good")}
Alone == \A q \in Procs : pc[q] \in {"idle", "done"}
SeqCreate(p) ==
  \E c \in SeqCompanies, b \in SeqCreateBodies :
    Alone /\ Together(c) /\ CreateRequest(p, c, b)
SeqUpdate(p) ==
  \E c \in SeqCompanies, id \in RouteIds, b \in SeqUpdateBodies :
    Alone /\ Together(c) /\ UpdateRequest(p, c, id, b)
SeqRate(p) ==
  \E c \in SeqCompanies, id \in RouteIds, rating \in SeqRatings :
    Alone /\ Together(c) /\ RateRequest(p, c, id, rating)
InitSeq == InitWith(0)
NextSeq ==
  \/ Tick
  \/ \E p \in Procs :
       \/ SeqCreate(p) \/ CreateGenerateId(p) \/ CreateCheckAndWrite(p)
       \/ CreateReadBack(p)
       \/ SeqUpdate(p) \/ UpdateMerge(p)
       \/ SeqRate(p) \/ RateSet(p)
       \/ WMkdir(p) \/ WTmpOpen(p) \/ WTmpWrite(p) \/ WRename1(p)
SpecSeq == InitSeq /\ [][NextSeq]_vars

\* the removal model: one request at a time on companies that already hold
\* orders, as POST /api/orders stored them
Kept(id) ==
  [Finalize(PreNormalize(MkOrder(id, Num(1), Arr(<<Str("Tea")>>), Undefined)), 1)
     EXCEPT !.id = String(id)]
HeldOrders ==
  { <<>>, <<Kept(Num(7))>>, <<Kept(Num(6)), Kept(Num(7)), Kept(Num(8))>>,
    <<Kept(Num(7)), Kept(Str("a"))>> }
DelCompanies == {<<"acme">>, <<"default">>}
DelIds == {NumStr(7), NumStr(9)}
SeqDelete(p) ==
  \E c \in DelCompanies, id \in DelIds : Alone /\ DeleteRequest(p, c, id)
SeqClear(p) == \E c \in DelCompanies : Alone /\ ClearRequest(p, c)
InitDel ==
  \E held \in [DelCompanies -> HeldOrders] :
    InitOn([f \in Paths |->
              IF \E c \in DelCompanies : f = companyOrdersPath(c)
              THEN Stringify(held[CHOOSE c \in DelCompanies : f = companyOrdersPath(c)])
              ELSE StartFiles[f]], 0)
NextDel ==
  \E p \in Procs :
    \/ SeqDelete(p) \/ DeleteSplice(p)
    \/ SeqClear(p)
    \/ WMkdir(p) \/ WTmpOpen(p) \/ WTmpWrite(p) \/ WRename1(p)
SpecDel == InitDel /\ [][NextDel]_vars

\* -------------------------------------------------------- desks routes
\* readDesks(companyId) on a desks file holding `content`
readDesks(c, content) ==
  LET data == readJSON(content, FALSE, <<Registry(Num(10), EmptyObj)>>).value[1]
  IN IF c # NoCompany
     THEN [data EXCEPT !.desks = IF Truthy(data.desks) THEN data.desks ELSE EmptyObj]
     ELSE data

\* writeDesks(data, companyId) up to the first await of writeJSONAtomic
writeDesks(p, data) ==
  /\ json' = [json EXCEPT ![p] = JsonText(data)]
  /\ Goto(p, "w_mkdir")
  /\ tried' = [tried EXCEPT ![p] = {}]
  /\ UNCHANGED quiet

\* GET /api/desks up to its await
GetDesksRequest(p, c) ==
  /\ Begin(p, "getDesks", c)
  /\ Goto(p, "gd_read")
  /\ UNCHANGED <<fs, fd, param, body, orders, json, wfail, _ordersWriteLock, reply, now, faults,
                 server, tried, quiet>>

\* GET /api/desks: res.json(desks)
GetDesksReply(p) ==
  /\ server = "up" /\ pc[p] = "gd_read"
  /\ Answer(p, 200, EmptyBody, <<readDesks(company[p], fs[DesksFile(company[p])])>>)
  /\ UNCHANGED <<fs, fd, wfail, _ordersWriteLock, faults, server, tried, Locals>>

\* typeof payload.numDesks !== "number" || typeof payload.desks !== "object"
InvalidDesks(payload) ==
  payload.numDesks.t # "num" \/ payload.desks.t \notin {"obj", "null"}

\* POST /api/desks: 400 or writeDesks(payload)
SaveDesksRequest(p, c, payload) ==
  /\ Begin(p, "saveDesks", c)
  /\ IF InvalidDesks(payload)
     THEN Answer(p, 400, EmptyBody, <<>>) /\ UNCHANGED <<body, json, tried, quiet>>
     ELSE /\ body' = [body EXCEPT ![p] = payload]
          /\ writeDesks(p, payload)
          /\ UNCHANGED reply
  /\ UNCHANGED <<fs, fd, param, orders, wfail, _ordersWriteLock, now, faults, server>>

\* PUT /api/desks/:id up to its first await
SaveDeskRequest(p, c, id, b) ==
  /\ Begin(p, "saveDesk", c)
  /\ param' = [param EXCEPT ![p] = String(id)]
  /\ body' = [body EXCEPT ![p] = b]
  /\ Goto(p, "sd_read")
  /\ UNCHANGED <<fs, fd, orders, json, wfail, _ordersWriteLock, reply, now, faults, server, tried, quiet>>

\* the registry PUT /api/desks/:id writes: the desk is set and numDesks raised
WithDesk(data, id, b) ==
  LET desks == IF Truthy(data.desks) THEN data.desks ELSE EmptyObj
      asNum == ParseInt(id)
  IN [numDesks |-> IF ~asNum.nan /\ (~Truthy(data.numDesks) \/ Lt(data.numDesks, asNum.n))
                   THEN Num(asNum.n) ELSE data.numDesks,
      desks |-> [desks EXCEPT !.map[id] = b]]

\* PUT /api/desks/:id: the registry is read, changed and written
SaveDeskSet(p) ==
  /\ server = "up" /\ pc[p] = "sd_read"
  /\ writeDesks(p, WithDesk(readDesks(company[p], fs[DesksFile(company[p])]),
                            param[p], body[p]))
  /\ UNCHANGED <<fs, fd, op, company, param, body, orders, wfail, _ordersWriteLock, reply, now, faults,
                 started, server>>

\* the desks model: one request at a time on desks documents as the routes or
\* an earlier installation left them
DeskCompanies == {NoCompany, <<"acme">>}
DeskContents ==
  { Absent, JsonText(defaultDesks), JsonText(Registry(Num(5), Undefined)),
    JsonText(Registry(Num(0), EmptyObj)), JsonText(Registry(Undefined, EmptyObj)) }
DeskPayloads ==
  { Registry(Num(0), EmptyObj), Registry(Num(2), Null),
    Registry(NumStr(4), EmptyObj), Registry(Num(5), Undefined) }
DeskBodies == {Desk("hq")}
SeqGetDesks(p) == \E c \in DeskCompanies : Alone /\ GetDesksRequest(p, c)
SeqSaveDesks(p) ==
  \E c \in DeskCompanies, payload \in DeskPayloads : Alone /\ SaveDesksRequest(p, c, payload)
SeqSaveDesk(p) ==
  \E c \in DeskCompanies, id \in DeskKeys, b \in DeskBodies :
    Alone /\ SaveDeskRequest(p, c, id, b)
InitDesks ==
  \E held \in [DeskCompanies -> DeskContents] :
    InitOn([f \in Paths |->
              IF \E c \in DeskCompanies : f = DesksFile(c)
              THEN held[CHOOSE c \in DeskCompanies : f = DesksFile(c)]
              ELSE StartFiles[f]], 0)
NextDesks ==
  \E p \in Procs :
    \/ SeqGetDesks(p) \/ GetDesksReply(p)
    \/ SeqSaveDesks(p)
    \/ SeqSaveDesk(p) \/ SaveDeskSet(p)
    \/ WMkdir(p) \/ WTmpOpen(p) \/ WTmpWrite(p) \/ WRename1(p)
SpecDesks == InitDesks /\ [][NextDesks]_vars

\* --------------------------------------------------------- menu routes
\* data && typeof data === "object"
IsObject(data) == data.t \in {"obj", "arr"}

\* readMenuCompany trying the file under MENUS_DIR first
readMenuLegacyFirst(id, f) ==
  LET unified == readJSON(f[companyMenuFile(id)], FALSE, <<JNull>>).value[1]
      legacy == readJSON(f[canonicalMenuPath(id)], FALSE, <<JNull>>).value[1]
  IN IF IsObject(legacy) THEN legacy
     ELSE IF IsObject(unified) THEN unified
     ELSE defaultMenu

\* readMenuCompany(companyId) on the files f
readMenuCompany(id, f) ==
  LET unified == readJSON(f[companyMenuFile(id)], FALSE, <<JNull>>).value[1]
      legacy == readJSON(f[canonicalMenuPath(id)], FALSE, <<JNull>>).value[1]
  IN IF IsObject(unified) THEN unified
     ELSE IF IsObject(legacy) THEN legacy
     ELSE defaultMenu

IsPrefix(a, b) == Len(a) <= Len(b) /\ SubSeq(b, 1, Len(a)) = a

\* the path an item's image is saved at
ItemPath(id, item, t) ==
  savePath(id, IF item.id # NoItemId THEN item.id ELSE <<ToString(t)>>, item.imageData.ext)
\* fs.writeFile(savePath, buffer) succeeds: the directory of savePath is one
\* that fs.mkdir(menuUploadsDir, { recursive: true }) made
ImageWritten(id, item, t) ==
  /\ item.imageData.kind = "image"
  /\ IsPrefix(Dirname(ItemPath(id, item, t)), menuUploadsDir(id))

\* the body of the loop over cat.items for one item
SaveItem(id, item, t) ==
  IF item.imageData.kind \notin {"image", "baddata"} THEN item
  ELSE [item EXCEPT !.imageData = NoImageData,
                    !.image = IF ImageWritten(id, item, t)
                              THEN ImageUrl(ItemPath(id, item, t)) ELSE @]

\* the items of the menu in the order of the two loops
RECURSIVE AllItems(_)
AllItems(cats) ==
  IF cats = <<>> THEN <<>>
  ELSE (IF Head(cats).isArray THEN Head(cats).items ELSE <<>>) \o AllItems(Tail(cats))

\* the files after the loops have written the images of `items`
RECURSIVE SaveImages(_, _, _, _)
SaveImages(f, id, items, t) ==
  IF items = <<>> THEN f
  ELSE LET item == Head(items)
       IN SaveImages(IF ImageWritten(id, item, t)
                     THEN [f EXCEPT ![ItemPath(id, item, t)] = ImageFile(item.imageData.bytes)]
                     ELSE f,
                     id, Tail(items), t)

\* menuObj after the loops
Extracted(menu, id, t) ==
  Menu([i \in 1..Len(menu.cats) |->
          IF menu.cats[i].isArray
          THEN Category([j \in 1..Len(menu.cats[i].items) |->
                           SaveItem(id, menu.cats[i].items[j], t)])
          ELSE menu.cats[i]])

\* GET /api/menu up to its await
GetMenuRequest(p, c) ==
  /\ Begin(p, "getMenu", c)
  /\ Goto(p, "gm_read")
  /\ UNCHANGED <<fs, fd, param, body, orders, json, wfail, _ordersWriteLock, reply, now, faults,
                 server, tried, quiet>>

\* GET /api/menu: res.json(menu)
GetMenuReply(p) ==
  /\ server = "up" /\ pc[p] = "gm_read"
  /\ Answer(p, 200, EmptyBody, <<readMenuCompany(company[p], fs)>>)
  /\ UNCHANGED <<fs, fd, wfail, _ordersWriteLock, faults, server, tried, Locals>>

\* POST /api/menu up to the first await of writeMenuCompany
MenuRequest(p, c, menu) ==
  /\ Begin(p, "saveMenu", c)
  /\ body' = [body EXCEPT ![p] = menu]
  /\ Goto(p, "m_mkdir")
  /\ UNCHANGED <<fs, fd, param, orders, json, wfail, _ordersWriteLock, reply, now, faults, server,
                 tried, quiet>>

\* the three fs.mkdir calls of writeMenuCompany
MenuMkdir(p) ==
  /\ server = "up" /\ pc[p] = "m_mkdir"
  /\ Goto(p, "m_images")
  /\ UNCHANGED <<fs, fd, wfail, _ordersWriteLock, reply, faults, server, tried, Locals>>

\* the loops that save the images, then writeJSONAtomic for the file under
\* MENUS_DIR up to its first await
MenuImages(p) ==
  /\ server = "up" /\ pc[p] = "m_images"
  /\ fs' = SaveImages(fs, company[p], AllItems(body[p].cats), now)
  /\ body' = [body EXCEPT ![p] = Extracted(body[p], company[p], now)]
  /\ json' = [json EXCEPT ![p] = JsonText(Extracted(body[p], company[p], now))]
  /\ Goto(p, "w_mkdir")
  /\ tried' = [tried EXCEPT ![p] = {}]
  /\ UNCHANGED <<fd, op, company, param, orders, wfail, _ordersWriteLock, reply, now, faults, started,
                 server, quiet>>

\* writeJSONAtomic for the copy under data/companies up to its first await
MenuCopy(p) ==
  /\ server = "up" /\ pc[p] = "m_copy"
  /\ op' = [op EXCEPT ![p] = "saveMenuCopy"]
  /\ Goto(p, "w_mkdir")
  /\ tried' = [tried EXCEPT ![p] = {}]
  /\ UNCHANGED <<fs, fd, company, param, body, orders, json, wfail, _ordersWriteLock, reply, now,
                 faults, started, server, quiet>>

\* POST /api/menu after writeMenuCompany: res.json(await readMenuCompany())
MenuReadBack(p) ==
  /\ server = "up" /\ pc[p] = "m_readback"
  /\ Answer(p, 200, EmptyBody, <<readMenuCompany(company[p], fs)>>)
  /\ UNCHANGED <<fs, fd, wfail, _ordersWriteLock, faults, server, tried, Locals>>

\* the menu model: one request at a time; the two menu files of "acme" start
\* with any of MenuContents
MenuCompanies == {<<"default">>, <<"acme">>}
MenuA == Menu(<<Category(<<Item(<<"latte">>, NoImageData)>>)>>)
MenuB == Menu(<<>>)
MenuContents ==
  { Absent, EmptyFile, Partial, JsonText(JNull), JsonText(JNum), JsonText(JArr),
    JsonText(MenuA), JsonText(MenuB) }
MenuBodies ==
  { Menu(<<Category(<<Item(<<"tea">>, DataImage(".png", "AAAA")),
                      Item(<<"bad">>, BadDataUri),
                      Item(<<"raw">>, PlainString)>>),
           NoItemsCategory>>),
    Menu(<<Category(<<Item(NoItemId, DataImage(".jpeg", "CCCC"))>>),
           Category(<<Item(<<"a", "b">>, DataImage(".png", "BBBB"))>>)>>),
    Menu(<<Category(<<Item(<<"tea">>, DataImage(".png", "AAAA"))>>),
           Category(<<Item(<<"tea">>, DataImage(".png", "DDDD"))>>)>>),
    MenuB }
SeqGetMenu(p) == \E c \in MenuCompanies : Alone /\ GetMenuRequest(p, c)
SeqSaveMenu(p) ==
  \E c \in MenuCompanies, menu \in MenuBodies : Alone /\ MenuRequest(p, c, menu)
InitMenu ==
  \E unified \in MenuContents, legacy \in MenuContents :
    InitOn([f \in Paths |->
              IF f = companyMenuFile(<<"acme">>) THEN unified
              ELSE IF f = canonicalMenuPath(<<"acme">>) THEN legacy
              ELSE StartFiles[f]], 0)
NextMenu ==
  \E p \in Procs :
    \/ SeqGetMenu(p) \/ GetMenuReply(p)
    \/ SeqSaveMenu(p) \/ MenuMkdir(p) \/ MenuImages(p) \/ MenuCopy(p) \/ MenuReadBack(p)
    \/ WMkdir(p) \/ WTmpOpen(p) \/ WTmpWrite(p) \/ WRename1(p)
SpecMenu == InitMenu /\ [][NextMenu]_vars

\* ---------------------------------------------------------- the stall
\* the stall model: two requests overlap, one on each process, on orders, desks
\* or menu of one company or of two; a filesystem call ends when the step
\* after it is taken, and the first request is never bound to take a step
StallCompanies == {<<"default">>, <<"acme">>}
StallCreate(p) ==
  \E c \in StallCompanies :
    CreateRequest(p, c, MkOrder(Num(7), Num(1), Arr(<<Str("Tea")>>), Undefined))
StallSaveDesk(p) == \E c \in StallCompanies : SaveDeskRequest(p, c, NumStr(3), Desk("hq"))
StallSaveMenu(p) == \E c \in StallCompanies : MenuRequest(p, c, MenuB)
\* what a request does once its filesystem call has ended
Resume(p) ==
  \/ CreateCheckAndWrite(p) \/ CreateReadBack(p)
  \/ SaveDeskSet(p)
  \/ MenuMkdir(p) \/ MenuImages(p) \/ MenuCopy(p) \/ MenuReadBack(p)
  \/ RenameTiers(p)
InitStall == InitWith(0)
NextStall ==
  \E p \in Procs :
    \/ StallCreate(p) \/ StallSaveDesk(p) \/ StallSaveMenu(p)
    \/ Resume(p)
\* the calls of every request but the first end: the libuv pool serves them
SpecStall ==
  InitStall /\ [][NextStall]_vars /\ \A p \in Procs \ {1} : WF_vars(Resume(p))

\* ------------------------------------------- the single-file container
\* The container document of safeReadOrdersFile / safeWriteOrdersFile: one
\* object keyed by company identifier; an entry is absent (has = FALSE) or an
\* array of orders.
ContainerKeys == {"_default", "acme"}
NoEntry == [has |-> FALSE, orders |-> <<>>]
Entry(os) == [has |-> TRUE, orders |-> os]
Container(map) == [t |-> "container", map |-> map]
EmptyContainer == Container([k \in ContainerKeys |-> NoEntry])

\* const key = companyId || "_default"
ContainerKey(companyId) == IF companyId # <<>> THEN companyId[1] ELSE "_default"

\* container[key] = ordersArray, as JSON.stringify keeps it
WithEntry(container, key, os) ==
  Container([container.map EXCEPT ![key] = Entry(Stringify(os).doc)])

\* container[key] || []
EntryOr(container, key) ==
  IF container.map[key].has THEN container.map[key].orders ELSE <<>>

\* safeReadOrdersFile(): {} for a missing or empty file; a text that does not
\* parse and a read error other than ENOENT are logged and rethrown
safeReadOrdersFile(content, ioError) ==
  IF ioError THEN [threw |-> TRUE, value |-> EmptyContainer]
  ELSE IF content.st \in {"absent", "empty"} THEN [threw |-> FALSE, value |-> EmptyContainer]
  ELSE IF content.st = "partial" THEN [threw |-> TRUE, value |-> EmptyContainer]
  ELSE [threw |-> FALSE, value |-> content.doc[1]]

\* the container variant of readOrders / writeOrders is called
KCompanies == {NoCompany, <<"acme">>}
KCallRead(p) ==
  \E c \in KCompanies :
    /\ Begin(p, "kRead", c)
    /\ Goto(p, "k_read")
    /\ UNCHANGED <<fs, fd, param, body, orders, json, wfail, _ordersWriteLock, reply,
                   now, faults, server, tried, quiet>>
KCallWrite(p) ==
  \E c \in KCompanies, X \in Docs :
    /\ Begin(p, "kWrite", c)
    /\ orders' = [orders EXCEPT ![p] = X]
    /\ Goto(p, "k_read")
    /\ UNCHANGED <<fs, fd, param, body, json, wfail, _ordersWriteLock, reply,
                   now, faults, server, tried, quiet>>

\* `while (_ordersWriteLock) await new Promise(...)` once, with the flag taken
\* whatever it holds
TakeLockUnchecked(p) ==
  /\ _ordersWriteLock' = TRUE
  /\ Goto(p, "k_tmp_open")

\* while (_ordersWriteLock) await new Promise((r) => setTimeout(r, 8));
\* _ordersWriteLock = true: the test and the assignment run with no await
\* between them, and fs.writeFile(tmp) is called
TakeLock(p) ==
  IF _ordersWriteLock
  THEN Goto(p, "k_wait") /\ UNCHANGED _ordersWriteLock
  ELSE _ordersWriteLock' = TRUE /\ Goto(p, "k_tmp_open")

\* safeReadOrdersFile returns to readOrders, which answers, or to writeOrders,
\* which sets its entry and calls safeWriteOrdersFile(container)
KRead(p) ==
  /\ server = "up" /\ pc[p] = "k_read"
  /\ \E ok \in Outcomes :
       /\ Spend(ok)
       /\ LET r == safeReadOrdersFile(fs[ORDERS_FILE], ~ok)
              key == ContainerKey(company[p])
          IN IF r.threw
             THEN Return(p, FALSE) /\ UNCHANGED <<json, _ordersWriteLock>>
             ELSE IF op[p] = "kRead"
             THEN /\ Goto(p, "done")
                  /\ Respond(p, 200, EmptyBody, EntryOr(r.value, key), "")
                  /\ UNCHANGED <<json, server, _ordersWriteLock>>
             ELSE /\ json' = [json EXCEPT ![p] = JsonText(WithEntry(r.value, key, orders[p]))]
                  /\ TakeLock(p)
                  /\ UNCHANGED <<reply, server>>
  /\ UNCHANGED <<fs, fd, op, company, param, body, orders, wfail, now, started, tried, quiet>>

\* the 8 ms timer of safeWriteOrdersFile fires
KPoll(p) ==
  /\ server = "up" /\ pc[p] = "k_wait"
  /\ TakeLock(p)
  /\ UNCHANGED <<fs, fd, op, company, param, body, orders, json, wfail, reply, now,
                 faults, started, server, tried, quiet>>

\* finally { _ordersWriteLock = false }, then the call returns or throws
Release(p, ok) ==
  /\ _ordersWriteLock' = FALSE
  /\ Return(p, ok)

\* fs.writeFile(tmp, ...) inside the try of safeWriteOrdersFile: the open
KTmpOpen(p) ==
  /\ server = "up" /\ pc[p] = "k_tmp_open"
  /\ \E ok \in Outcomes :
       /\ Spend(ok)
       /\ IF ok
          THEN /\ fs' = OpenTrunc(fs, ORDERS_FILE_TMP)
               /\ fd' = [fd EXCEPT ![p] = ORDERS_FILE_TMP]
               /\ Goto(p, "k_tmp_write")
               /\ UNCHANGED <<reply, server, _ordersWriteLock>>
          ELSE /\ UNCHANGED <<fs, fd>>
               /\ Release(p, FALSE)
  /\ UNCHANGED <<wfail, tried, Locals>>

\* fs.writeFile(tmp, ...): the write and the close
KTmpWrite(p) ==
  /\ server = "up" /\ pc[p] = "k_tmp_write"
  /\ \E ok \in Outcomes :
       /\ Spend(ok)
       /\ IF ok
          THEN /\ \E c \in Overwrite(FdContent(p), json[p]) : fs' = WriteFd(p, c)
               /\ Goto(p, "k_rename")
               /\ UNCHANGED <<reply, server, _ordersWriteLock>>
          ELSE /\ fs' = WriteFd(p, Partial)
               /\ Release(p, FALSE)
  /\ fd' = [fd EXCEPT ![p] = NoFd]
  /\ UNCHANGED <<wfail, tried, Locals>>

\* fs.rename(tmp, ORDERS_FILE) with the flag left set when the rename fails
KRenameNoFinally(p) ==
  /\ server = "up" /\ pc[p] = "k_rename"
  /\ \E ok \in (IF fs[ORDERS_FILE_TMP].st # "absent" THEN Outcomes ELSE {FALSE}) :
       /\ faults' = IF ok \/ fs[ORDERS_FILE_TMP].st = "absent" THEN faults ELSE faults - 1
       /\ IF ok
          THEN /\ fs' = RenameFs(fs, ORDERS_FILE_TMP, ORDERS_FILE)
               /\ fd' = RenameFd(fd, ORDERS_FILE_TMP, ORDERS_FILE)
               /\ Release(p, TRUE)
          ELSE /\ UNCHANGED <<fs, fd, _ordersWriteLock>>
               /\ Return(p, FALSE)
  /\ UNCHANGED <<wfail, tried, Locals>>

\* fs.rename(tmp, ORDERS_FILE), then the finally block
KRename(p) ==
  /\ server = "up" /\ pc[p] = "k_rename"
  /\ \E ok \in (IF fs[ORDERS_FILE_TMP].st # "absent" THEN Outcomes ELSE {FALSE}) :
       /\ faults' = IF ok \/ fs[ORDERS_FILE_TMP].st = "absent" THEN faults ELSE faults - 1
       /\ IF ok
          THEN /\ fs' = RenameFs(fs, ORDERS_FILE_TMP, ORDERS_FILE)
               /\ fd' = RenameFd(fd, ORDERS_FILE_TMP, ORDERS_FILE)
          ELSE UNCHANGED <<fs, fd>>
       /\ Release(p, ok)
  /\ UNCHANGED <<wfail, tried, Locals>>

\* the container file at the start: missing, or holding the entry of "acme"
KContents ==
  {Absent, JsonText(WithEntry(EmptyContainer, "acme", <<OrderB>>))}
InitContainer ==
  \E c \in KContents : InitOn([StartFiles EXCEPT ![ORDERS_FILE] = c], MaxFaults)

\* the steps of a call once the awaited call or timer has ended
KStep(p) == KRead(p) \/ KPoll(p) \/ KTmpOpen(p) \/ KTmpWrite(p) \/ KRename(p)
NextContainer ==
  \E p \in Procs : KCallRead(p) \/ KCallWrite(p) \/ KStep(p) \/ Finish(p)
SpecContainer == InitContainer /\ [][NextContainer]_vars
\* every filesystem call returns and every timer fires
SpecContainerLive == SpecContainer /\ \A p \in Procs : WF_vars(KStep(p))

\* ------------------------------------------------- overlapping writes
\* writeOrders calls on one company's document, up to MaxWriters of them,
\* with no filesystem call failing by itself
CallWriteTogether(p) ==
  \E X \in Docs :
    /\ Arrive(p, "writeOrders", <<"acme">>, MaxWriters)
    /\ orders' = [orders EXCEPT ![p] = X]
    /\ writeOrders(p, <<"acme">>, X)
    /\ UNCHANGED <<fs, fd, param, body, wfail, _ordersWriteLock, reply, now, faults, server>>
InitOverlap == InitWith(0)
NextOverlap == \E p \in Procs : CallWriteTogether(p) \/ RenameTiers(p)
SpecOverlap == InitOverlap /\ [][NextOverlap]_vars

\* ------------------------------------------------ overlapping menu saves
\* POST /api/menu requests for "acme" that overlap, and GET /api/menu; no
\* filesystem call fails by itself
PairSaveMenu(p) == \E menu \in {MenuA, MenuB} : MenuRequest(p, <<"acme">>, menu)
PairGetMenu(p) == GetMenuRequest(p, <<"acme">>)
InitPair == InitWith(0)
NextPair ==
  \E p \in Procs :
    \/ PairSaveMenu(p) \/ MenuMkdir(p) \/ MenuImages(p) \/ MenuCopy(p) \/ MenuReadBack(p)
    \/ PairGetMenu(p) \/ GetMenuReply(p)
    \/ RenameTiers(p)
SpecPair == InitPair /\ [][NextPair]_vars

\* ------------------------------------------------- the three collections
\* the frame model: requests on orders, desks and menu, one at a time; company
\* "beta" has an order stored and sends no request
FrameCompanies == {NoCompany, <<"acme">>}
FrameMenuIds == {<<"acme">>, MenuTraversal}
FrameOrder == MkOrder(Num(7), Num(1), Arr(<<Str("Tea")>>), Undefined)
FrameCreate(p) == \E c \in FrameCompanies : Alone /\ CreateRequest(p, c, FrameOrder)
FrameUpdate(p) ==
  \E c \in FrameCompanies :
    Alone /\ UpdateRequest(p, c, NumStr(7), [EmptyBody EXCEPT !.status = Str("completed")])
FrameRate(p) == \E c \in FrameCompanies : Alone /\ RateRequest(p, c, NumStr(7), Num(5))
FrameDelete(p) == \E c \in FrameCompanies : Alone /\ DeleteRequest(p, c, NumStr(7))
FrameClear(p) == \E c \in FrameCompanies : Alone /\ ClearRequest(p, c)
FrameList(p) == Alone /\ ReqList(p)
FrameGetDesks(p) == \E c \in FrameCompanies : Alone /\ GetDesksRequest(p, c)
FrameSaveDesks(p) ==
  \E c \in FrameCompanies : Alone /\ SaveDesksRequest(p, c, Registry(Num(2), Null))
FrameSaveDesk(p) ==
  \E c \in FrameCompanies : Alone /\ SaveDeskRequest(p, c, NumStr(3), Desk("hq"))
FrameGetMenu(p) == Alone /\ GetMenuRequest(p, <<"acme">>)
FrameSaveMenu(p) == \E c \in FrameMenuIds : Alone /\ MenuRequest(p, c, MenuA)
InitFrame ==
  InitOn([StartFiles EXCEPT ![companyOrdersPath(<<"beta">>)] = Stringify(<<OrderA>>)], 0)
NextFrame ==
  \E p \in Procs :
    \/ FrameCreate(p) \/ CreateCheckAndWrite(p) \/ CreateReadBack(p)
    \/ FrameUpdate(p) \/ UpdateMerge(p)
    \/ FrameRate(p) \/ RateSet(p)
    \/ FrameDelete(p) \/ DeleteSplice(p)
    \/ FrameClear(p)
    \/ FrameList(p) \/ ListReply(p)
    \/ FrameGetDesks(p) \/ GetDesksReply(p)
    \/ FrameSaveDesks(p) \/ FrameSaveDesk(p) \/ SaveDeskSet(p)
    \/ FrameGetMenu(p) \/ GetMenuReply(p)
    \/ FrameSaveMenu(p) \/ MenuMkdir(p) \/ MenuImages(p) \/ MenuCopy(p) \/ MenuReadBack(p)
    \/ WMkdir(p) \/ WTmpOpen(p) \/ WTmpWrite(p) \/ WRename1(p)
SpecFrame == InitFrame /\ [][NextFrame]_vars

\* ------------------------------------------------------ ensureFilesExist
\* companyMenuPath(companyId): the file under MENUS_DIR
companyMenuPath(companyId) ==
  canonicalMenuPath(IF companyId # <<>> THEN companyId ELSE <<"default">>)

\* fs.access(path) succeeds
Exists(f, path) == f[path] # Absent

\* startServer calls ensureFilesExist: the four fs.mkdir calls
EnsureStart(p) ==
  /\ Alone /\ Begin(p, "ensureFilesExist", NoCompany)
  /\ Goto(p, "e_orders")
  /\ UNCHANGED <<fs, fd, param, body, orders, json, wfail, _ordersWriteLock, reply, now, faults,
                 server, tried, quiet>>

\* fs.access(ORDERS_FILE), on ENOENT writeOrders([], null)
EnsureLegacyOrders(p) ==
  /\ server = "up" /\ pc[p] = "e_orders"
  /\ IF Exists(fs, ORDERS_FILE)
     THEN Goto(p, "e_desks") /\ UNCHANGED <<op, company, json, tried, quiet>>
     ELSE /\ op' = [op EXCEPT ![p] = "ensureOrders"]
          /\ company' = [company EXCEPT ![p] = NoCompany]
          /\ writeOrders(p, NoCompany, <<>>)
  /\ UNCHANGED <<fs, fd, param, body, orders, wfail, _ordersWriteLock, reply, now, faults,
                 started, server>>

\* fs.access(DESKS_FILE), on ENOENT writeDesks(defaultDesks, null)
EnsureLegacyDesks(p) ==
  /\ server = "up" /\ pc[p] = "e_desks"
  /\ IF Exists(fs, DESKS_FILE)
     THEN Goto(p, "e_menu") /\ UNCHANGED <<op, company, json, tried, quiet>>
     ELSE /\ op' = [op EXCEPT ![p] = "ensureDesks"]
          /\ company' = [company EXCEPT ![p] = NoCompany]
          /\ writeDesks(p, defaultDesks)
  /\ UNCHANGED <<fs, fd, param, body, orders, wfail, _ordersWriteLock, reply, now, faults,
                 started, server>>

\* fs.access(MENUS_DIR/default.json), on ENOENT
\* writeMenuCompany("default", await readMenuCompany("default")) up to its
\* first await
EnsureMenu(p) ==
  /\ server = "up" /\ pc[p] = "e_menu"
  /\ IF Exists(fs, canonicalMenuPath(<<"default">>))
     THEN Goto(p, "e_def_orders") /\ UNCHANGED <<op, company, body>>
     ELSE /\ op' = [op EXCEPT ![p] = "ensureMenu"]
          /\ company' = [company EXCEPT ![p] = <<"default">>]
          /\ body' = [body EXCEPT ![p] = readMenuCompany(<<"default">>, fs)]
          /\ Goto(p, "m_mkdir")
  /\ UNCHANGED <<fs, fd, param, orders, json, wfail, _ordersWriteLock, reply, now, faults,
                 started, server, tried, quiet>>

\* writeMenuCompany called by ensureFilesExist: writeJSONAtomic for the copy
\* under data/companies up to its first await
EnsureCopy(p) ==
  /\ server = "up" /\ pc[p] = "e_copy"
  /\ op' = [op EXCEPT ![p] = IF @ = "ensureMenu" THEN "ensureMenuCopy" ELSE "ensureDefMenuCopy"]
  /\ Goto(p, "w_mkdir")
  /\ tried' = [tried EXCEPT ![p] = {}]
  /\ UNCHANGED <<fs, fd, company, param, body, orders, json, wfail, _ordersWriteLock, reply, now,
                 faults, started, server, quiet>>

\* fs.access(companyOrdersPath("default")), on ENOENT writeOrders([], "default")
EnsureDefOrders(p) ==
  /\ server = "up" /\ pc[p] = "e_def_orders"
  /\ IF Exists(fs, companyOrdersPath(<<"default">>))
     THEN Goto(p, "e_def_desks") /\ UNCHANGED <<op, company, json, tried, quiet>>
     ELSE /\ op' = [op EXCEPT ![p] = "ensureOrders"]
          /\ company' = [company EXCEPT ![p] = <<"default">>]
          /\ writeOrders(p, <<"default">>, <<>>)
  /\ UNCHANGED <<fs, fd, param, body, orders, wfail, _ordersWriteLock, reply, now, faults,
                 started, server>>

\* fs.access(companyDesksPath("default")), on ENOENT
\* writeDesks(defaultDesks, "default")
EnsureDefDesks(p) ==
  /\ server = "up" /\ pc[p] = "e_def_desks"
  /\ IF Exists(fs, companyDesksPath(<<"default">>))
     THEN Goto(p, "e_def_menu") /\ UNCHANGED <<op, company, json, tried, quiet>>
     ELSE /\ op' = [op EXCEPT ![p] = "ensureDesks"]
          /\ company' = [company EXCEPT ![p] = <<"default">>]
          /\ writeDesks(p, defaultDesks)
  /\ UNCHANGED <<fs, fd, param, body, orders, wfail, _ordersWriteLock, reply, now, faults,
                 started, server>>

\* fs.access(companyMenuPath("default")), on ENOENT writeMenuCompany again;
\* then ensureFilesExist returns
EnsureDefMenu(p) ==
  /\ server = "up" /\ pc[p] = "e_def_menu"
  /\ IF Exists(fs, companyMenuPath(<<"default">>))
     THEN Goto(p, "done") /\ UNCHANGED <<op, company, body>>
     ELSE /\ op' = [op EXCEPT ![p] = "ensureDefMenu"]
          /\ company' = [company EXCEPT ![p] = <<"default">>]
          /\ body' = [body EXCEPT ![p] = readMenuCompany(<<"default">>, fs)]
          /\ Goto(p, "m_mkdir")
  /\ UNCHANGED <<fs, fd, param, orders, json, wfail, _ordersWriteLock, reply, now, faults,
                 started, server, tried, quiet>>

\* the startup model: the data directory holds any subset of the six
\* documents, each one valid; ensureFilesExist runs, then runs again
MenuInline == Menu(<<Category(<<Item(<<"tea">>, DataImage(".png", "AAAA"))>>)>>)
StoredDesks == Registry(Num(2), EmptyObj)
EnsureFiles(lo, ld, lm, co, cd, cm) ==
  [f \in Paths |->
     IF f = ORDERS_FILE THEN lo
     ELSE IF f = DESKS_FILE THEN ld
     ELSE IF f = canonicalMenuPath(<<"default">>) THEN lm
     ELSE IF f = companyOrdersPath(<<"default">>) THEN co
     ELSE IF f = companyDesksPath(<<"default">>) THEN cd
     ELSE IF f = companyMenuFile(<<"default">>) THEN cm
     ELSE Absent]
InitEnsure ==
  \E lo, co \in {Absent, Stringify(<<OrderA>>)}, ld, cd \in {Absent, JsonText(StoredDesks)},
     lm \in {Absent, JsonText(MenuA)}, cm \in {Absent, JsonText(MenuA), JsonText(MenuInline)} :
    InitOn(EnsureFiles(lo, ld, lm, co, cd, cm), MaxFaults)
ensureFilesExist(p) ==
  \/ EnsureStart(p)
  \/ EnsureLegacyOrders(p) \/ EnsureLegacyDesks(p)
  \/ EnsureMenu(p) \/ MenuMkdir(p) \/ MenuImages(p) \/ EnsureCopy(p)
  \/ EnsureDefOrders(p) \/ EnsureDefDesks(p) \/ EnsureDefMenu(p)
NextEnsure == \E p \in Procs : ensureFilesExist(p) \/ writeJSONAtomic(p)
SpecEnsure == InitEnsure /\ [][NextEnsure]_vars

\* ------------------------------------------------- claims on the store
WroteAlone(p) ==
  pc[p] = "done" /\ op[p] = "writeOrders" /\ reply[p].code = 200 /\ quiet[p]

\* C3: once writeOrders(c, X) has reported success and no other write to that
\* document has run since it began, readOrders(c) returns X, whatever was
\* stored before and whichever tier of the write succeeded.
C3_RoundTrip ==
  \A p \in Procs :
    WroteAlone(p) => readJSON(fs[Dest(p)], FALSE, <<>>).value = orders[p]

\* a write that succeeded through the direct-write tier, on either identifier
C3_Witness ==
  \E p \in Procs : WroteAlone(p) /\ "direct1" \in tried[p] /\ company[p] = NoCompany

\* C4: a readJSON that runs while a writeJSONAtomic call to its destination is in
\* progress returns a complete document (the one stored before or the new one),
\* never the fallback for a missing, empty or unparsable file.  The legacy
\* orders.json exists before the write starts; the read and the write are the
\* only two calls made.
C4_ReadSeesCompleteDocument ==
  \A p, q \in Procs :
    ( /\ started = 2
      /\ pc[p] = "done" /\ op[p] = "readOrders" /\ company[p] = NoCompany
      /\ op[q] = "writeOrders" /\ company[q] = NoCompany /\ InWrite(q) )
    => reply[p].log \in {"", "ioerror"}

\* C5: when the temporary-file write of the only writeJSONAtomic call fails, the
\* destination is never truncated or unparsable, during the call and after it,
\* and the call ends with the new document stored and success reported, or with
\* failure reported.
C5_TmpFailureKeepsDocument ==
  \A p \in Procs :
    ( /\ started = 1 /\ op[p] = "writeOrders" /\ company[p] = NoCompany
      /\ "direct1" \in tried[p] )
    => /\ fs[Dest(p)].st \notin {"empty", "partial"}
       /\ pc[p] = "done" =>
            \/ reply[p].code = 200 /\ fs[Dest(p)] = json[p]
            \/ reply[p].code = 500

\* C6: writeJSONAtomic signals failure only after every tier that applies has
\* been attempted: the direct write after a failed temporary write, or the
\* unlink, the second rename and the direct write after a failed rename.
C6_FailureOnlyAfterAllTiers ==
  \A p \in Procs :
    (pc[p] = "done" /\ op[p] = "writeOrders" /\ reply[p].code = 500)
    => \/ {"tmp", "direct1"} \subseteq tried[p]
       \/ {"tmp", "rename1", "unlink", "rename2", "direct2"} \subseteq tried[p]

\* C7: readJSON never fails and never changes a file: it returns the fallback
\* when the target is absent, empty or unparsable and when the read raises
\* another I/O error, and the parsed document otherwise.
C7_ReadJSONNeverFails ==
  [][\A p \in Procs :
       (pc[p] = "r_read" /\ pc'[p] # "r_read")
       => LET c == fs[Dest(p)]
              r == reply'[p]
          IN /\ pc'[p] = "done" /\ r.code = 200
             /\ fs' = fs
             /\ r.data = IF c.st = "full" /\ faults' = faults THEN c.doc ELSE <<>>]_vars

\* a read of an unparsable document and a read that raised an I/O error
C7_Witness ==
  \E p \in Procs :
    pc[p] = "done" /\ op[p] = "readOrders" /\ reply[p].log = "parse"

\* ------------------------------------------------ claims on the routes
\* what readOrders(c) returns from the present files
StoredOrders(c) == readJSON(fs[OrdersFile(c)], FALSE, <<>>).value
\* an id as the text String() gives it, read off the value itself
IdKey(id) == <<IF id.t = "num" THEN "#" ELSE id.txt, id.n, id.rnd>>
HasKey(os, id) == \E i \in 1..Len(os) : IdKey(os[i].id) = IdKey(id)
Created(p) == op[p] = "create" /\ pc[p] = "done" /\ reply[p].code = 201
\* the processes that have taken a request
Callers == {p \in Procs : pc[p] # "idle"}

\* C1: when the concurrent createOrder calls without id for one company have all
\* returned created, the returned ids are pairwise distinct and the stored
\* collection holds every one of them.
C1_ConcurrentCreatesAllKept ==
  (\A p \in Callers : Created(p)) =>
     /\ \A p, q \in Callers : p # q => reply[p].order.id # reply[q].order.id
     /\ \A p \in Callers : HasKey(StoredOrders(<<"acme">>), reply[p].order.id)

\* C2: a step of an operation called with one company identifier leaves what
\* readOrders returns for every other company identifier as it was.
C2_CompaniesIsolated ==
  [][\A p \in Procs : \A b \in RouteCompanies :
       (pc[p] # "idle" /\ pc'[p] # pc[p] /\ b # company[p])
         => readJSON(fs'[OrdersFile(b)], FALSE, <<>>).value = StoredOrders(b)]_vars

C10_GeneratedIdFresh ==
  [][\A p \in Procs :
       /\ (pc[p] = "c_read1" /\ pc'[p] = "c_read2")
            => ~HasKey(StoredOrders(company[p]), body'[p].id)
       /\ (pc[p] = "c_read2" /\ pc'[p] = "w_mkdir")
            => (~HasKey(StoredOrders(company[p]), body'[p].id)
                /\ IdKey(body'[p].id) = IdKey(body[p].id))
       /\ (pc[p] = "c_readback" /\ pc'[p] = "done")
            => (reply'[p].code = 201 /\ reply'[p].order = body[p])]_vars

\* created with a generated id while the collection held another id generated
\* in the same millisecond (a candidate that would have collided)
C10_Witness ==
  \E p \in Procs :
    /\ Created(p) /\ reply[p].order.id.txt = "ORD-"
    /\ \E i \in 1..Len(StoredOrders(company[p])) :
         LET id == StoredOrders(company[p])[i].id
         IN id.txt = "ORD-" /\ id.n = reply[p].order.id.n /\ id # reply[p].order.id

\* ------------------------------------------- claims on the normalisation
\* C11: a createOrder whose payload has desk undefined or null answers 400 and
\* changes no file; one with a desk and an empty or missing items list (and no
\* itemsDetailed) is not rejected and is written with items equal to [].
C11_DeskRequiredItemsOptional ==
  [][\A p \in Procs :
       /\ \A c \in SeqCompanies, b \in SeqCreateBodies :
            CreateRequest(p, c, b) =>
              /\ Missing(b.desk) =>
                   /\ fs' = fs /\ pc'[p] \in {"done", "c_read1"}
                   /\ pc'[p] = "done" => reply'[p].code = 400
              /\ ( /\ ~Missing(b.desk) /\ ~IsArray(b.itemsDetailed)
                   /\ (~IsArray(b.items) \/ b.items = Arr(<<>>)) )
                 => (pc'[p] # "done" /\ body'[p].items = Arr(<<>>))
       /\ (pc[p] = "c_read1" /\ pc'[p] # "c_read1" /\ Missing(body[p].desk))
            => (pc'[p] = "done" /\ reply'[p].code = 400 /\ fs' = fs)
       /\ (pc[p] = "c_read2" /\ pc'[p] = "w_mkdir")
            => orders'[p][Len(orders'[p])].items = body[p].items]_vars

\* the resolved name of an entry of itemsDetailed and the copies it contributes
ResolvedName(d) ==
  IF d.isNull THEN Undefined
  ELSE IF Truthy(d.name) THEN d.name ELSE IF Truthy(d.value) THEN d.value ELSE d.id
CopiesOf(d) ==
  IF d.isNull \/ ~Truthy(ResolvedName(d)) THEN 0
  ELSE IF d.quantity.t = "num" \/ (d.quantity.t = "str" /\ d.quantity.txt = "#")
       THEN d.quantity.n
       ELSE 0
RECURSIVE Expansion(_)
Expansion(ds) ==
  IF ds = <<>> THEN <<>>
  ELSE [i \in 1..CopiesOf(Head(ds)) |-> ResolvedName(Head(ds))] \o Expansion(Tail(ds))

\* C12: a createOrder with a desk whose items is not a sequence and whose
\* itemsDetailed is one goes on to store items equal to the concatenation, in
\* entry order, of quantity copies of each entry's resolved name; entries with
\* a non-positive or non-numeric quantity, entries without a usable name and
\* null entries contribute nothing and do not fail the request.
C12_ItemsDerivedFromDetails ==
  [][\A p \in Procs : \A c \in SeqCompanies, b \in SeqCreateBodies :
       ( /\ CreateRequest(p, c, b)
         /\ ~Missing(b.desk) /\ ~IsArray(b.items) /\ IsArray(b.itemsDetailed) )
       => ( /\ pc'[p] # "done"
            /\ body'[p].items = Arr(Expansion(b.itemsDetailed.els)) )]_vars

\* the position of the order with this id in a collection with distinct ids
KeyIndex(os, id) == CHOOSE i \in 1..Len(os) : IdKey(os[i].id) = IdKey(id)
\* the step of PUT /api/orders/:id that merges and starts the write
Merges(p) == pc[p] = "u_read" /\ pc'[p] = "w_mkdir"
OldOrder(p) == StoredOrders(company[p])[KeyIndex(StoredOrders(company[p]), param[p])]
NewOrder(p) == orders'[p][KeyIndex(StoredOrders(company[p]), param[p])]

\* C13: an updateOrder that sets status to completed on an order without
\* completedAt stores a completedAt that is not before the order's timestamp.
C13_CompletedNotBeforeTimestamp ==
  [][\A p \in Procs :
       (Merges(p) /\ body[p].status = Str("completed") /\ ~Truthy(OldOrder(p).completedAt))
       => ( /\ NewOrder(p).completedAt.txt = "ISO" /\ NewOrder(p).timestamp.txt = "ISO"
            /\ NewOrder(p).completedAt.n >= NewOrder(p).timestamp.n )]_vars

\* C14 as stated: for every payload that sets status to completed, the
\* completedAt of an order that has one is the same after the update.
C14_CompletedAtKeptForEveryPayload ==
  [][\A p \in Procs :
       (Merges(p) /\ body[p].status = Str("completed") /\ Truthy(OldOrder(p).completedAt))
       => NewOrder(p).completedAt = OldOrder(p).completedAt]_vars

\* C14 amended: for every payload that sets status to completed and carries no
\* completedAt, the completedAt of an order that has one is the same after the
\* update.
C14_CompletedAtKept ==
  [][\A p \in Procs :
       ( /\ Merges(p) /\ body[p].status = Str("completed")
         /\ body[p].completedAt = Undefined /\ Truthy(OldOrder(p).completedAt) )
       => NewOrder(p).completedAt = OldOrder(p).completedAt]_vars

\* an order completed at time 1 was updated to completed at time 2 and kept
\* its completedAt
C14_Witness ==
  \E p \in Procs :
    /\ op[p] = "update" /\ pc[p] = "done" /\ reply[p].code = 200 /\ now = 2
    /\ reply[p].order.status = Str("completed") /\ reply[p].order.desk = Str("d2")
    /\ reply[p].order.completedAt = IsoNow(1)

\* the value of a key after a shallow merge of the payload over the order
Pick(new, old) == IF new = Undefined THEN old ELSE new
UnchangedElsewhere(p) ==
  LET os == StoredOrders(company[p])
  IN /\ Len(orders'[p]) = Len(os)
     /\ \A i \in 1..Len(os) : i # KeyIndex(os, param[p]) => orders'[p][i] = os[i]
     /\ json'[p] = Stringify(orders'[p])
NotFoundWritesNothing(p) ==
  (pc[p] = "u_read" /\ pc'[p] # "u_read" /\ ~HasKey(StoredOrders(company[p]), param[p]))
  => (pc'[p] = "done" /\ reply'[p].code = 404 /\ fs' = fs /\ json' = json)

Removes(q) ==
  op[q] \in {"delete", "clear"} \/ (op[q] = "update" /\ param[q] = Str("bulk"))

\* C16: an order that createOrder reported as created is in its company's
\* stored collection in every state in which no other request is a delete, a
\* clear or a bulk replace.
C16_CreatedStaysUntilRemoved ==
  \A p \in Procs :
    (Created(p) /\ \A q \in Procs \ {p} : ~Removes(q))
    => HasKey(StoredOrders(company[p]), reply[p].order.id)

\* C17: readOrders with no company identifier and readOrders with the
\* identifier "default" return the same collection in every state, so what is
\* written through one is read through the other.
C17_AbsentIsDefault ==
  StoredOrders(NoCompany) = StoredOrders(<<"default">>)

\* -------------------------------------- claims on the stored order fields
\* C18: in every state every stored order has a desk that is a string.
C18_DeskIsString ==
  \A c \in SeqCompanies :
    \A i \in 1..Len(StoredOrders(c)) : StoredOrders(c)[i].desk.t = "str"

\* C19: in every state every stored order has items that is a sequence of
\* strings.
C19_ItemsAreStrings ==
  \A c \in SeqCompanies :
    \A i \in 1..Len(StoredOrders(c)) :
      LET items == StoredOrders(c)[i].items
      IN items.t = "arr" /\ \A j \in 1..Len(items.els) : items.els[j].t = "str"

\* C20: every stored order has a status among pending, in-progress and
\* completed; an order created without a status is written with status pending
\* and one created without a timestamp with the time of the creation.
C20_StatusInEnum ==
  [][/\ \A c \in SeqCompanies :
          LET os == readJSON(fs'[OrdersFile(c)], FALSE, <<>>).value
          IN \A i \in 1..Len(os) :
               os[i].status \in {Str("pending"), Str("in-progress"), Str("completed")}
     /\ \A p \in Procs :
          (pc[p] = "c_read2" /\ pc'[p] = "w_mkdir") =>
            LET new == orders'[p][Len(orders'[p])]
            IN /\ ~Truthy(body[p].status) => new.status = Str("pending")
               /\ ~Truthy(body[p].timestamp) => new.timestamp = IsoNow(now)]_vars

\* ------------------------------------------------------ claims: ratings
StarsValid(stars) == stars.t = "num" /\ stars.n \in 1..5
RatingsValid(os) == \A i \in 1..Len(os) : os[i].rating.set => StarsValid(os[i].rating.stars)

\* C21: a rateOrder whose stars are missing or outside 1..5 is answered with a
\* validation error and writes nothing, a rateOrder for an id no order has is
\* answered not found and writes nothing, and every stored order that has a
\* rating has stars in 1..5.
C21_RatingStarsInRange ==
  [][/\ \A p \in Procs, c \in SeqCompanies, id \in RouteIds, r \in SeqRatings :
          (RateRequest(p, c, id, r) /\ ~StarsValid(r)) =>
            (pc'[p] = "done" /\ reply'[p].code = 400 /\ fs' = fs)
     /\ \A p \in Procs :
          (RateSet(p) /\ ~HasKey(StoredOrders(company[p]), param[p])) =>
            (pc'[p] = "done" /\ reply'[p].code = 404 /\ fs' = fs)
     /\ \A c \in SeqCompanies :
          RatingsValid(readJSON(fs'[OrdersFile(c)], FALSE, <<>>).value)]_vars

\* ------------------------------------------------- claims: bulk replace
\* the step that answers a PUT /api/orders/bulk
BulkAnswered(p) == op[p] = "update" /\ param[p] = Str("bulk") /\ pc[p] # "done" /\ pc'[p] = "done"

\* C22: a bulk replace request for a company is answered with success and a
\* count equal to the length of its payload sequence, and the company's
\* collection is then the normalised payloads in input order, whatever was
\* stored before; the request carries one of BulkPayloads.
C22_BulkReplacesCollection ==
  [][\A p \in Procs :
       BulkAnswered(p) =>
         \E incoming \in BulkPayloads, t \in 1..MaxClock :
           /\ reply'[p].code = 200
           /\ reply'[p].data = <<Len(incoming)>>
           /\ readJSON(fs'[OrdersFile(company[p])], FALSE, <<>>).value =
                [i \in 1..Len(incoming) |-> BulkNormalize(incoming[i], t, 0)]]_vars

\* ----------------------------------------------------- claims: removal
\* os without its element k
Without(os, k) == [i \in 1..(Len(os) - 1) |-> IF i < k THEN os[i] ELSE os[i + 1]]
DeleteDone(p, code) == op[p] = "delete" /\ pc[p] = "done" /\ reply[p].code = code

\* C23: with one request at a time, a deleteOrder(c, id) on a collection that
\* holds an order with that id removes that one order, returns it and keeps the
\* others as they were and in their order; when no order has the id it answers
\* not found and the stored collection is unchanged; a second deleteOrder of
\* the same id answers not found.
C23_DeleteRemovesExactlyOne ==
  [][\A p \in Procs :
       LET os == StoredOrders(company[p])
           after == readJSON(fs'[OrdersFile(company[p])], FALSE, <<>>).value
       IN /\ (DeleteSplice(p) /\ ~HasKey(os, param[p])) =>
               (pc'[p] = "done" /\ reply'[p].code = 404 /\ fs' = fs)
          /\ (DeleteSplice(p) /\ HasKey(os, param[p])) => pc'[p] = "w_mkdir"
          /\ (op[p] = "delete" /\ WRename1(p)) =>
               /\ HasKey(os, param[p])
               /\ reply'[p].code = 200
               /\ reply'[p].order = os[KeyIndex(os, param[p])]
               /\ after = Without(os, KeyIndex(os, param[p]))
               /\ \A c \in DelCompanies \ {company[p]} :
                    fs'[OrdersFile(c)] = fs[OrdersFile(c)]
          /\ \A q \in Procs :
               (/\ q # p /\ DeleteDone(q, 200)' /\ op'[p] = "delete" /\ pc'[p] = "done"
                /\ company'[p] = company'[q] /\ param'[p] = param'[q])
               => reply'[p].code = 404]_vars

\* a delete took the middle one of three orders and a second delete of the same
\* id was answered not found
C23_Witness ==
  \E p, q \in Procs :
    /\ DeleteDone(q, 200) /\ DeleteDone(p, 404)
    /\ company[p] = company[q] /\ param[p] = param[q]
    /\ Len(StoredOrders(company[p])) = 2
    /\ StoredOrders(company[p])[2].id = NumStr(8)

\* C24: a clearOrders(c) whose write succeeds sends one success reply, takes no
\* error path after it (nothing is logged as an error and the process keeps
\* running), leaves the collection of c empty and every other company's
\* collection as it was.
C24_ClearEndsOk ==
  [][\A p \in Procs :
       (op[p] = "clear" /\ WRename1(p)) =>
         /\ pc'[p] = "done" /\ reply'[p].code = 200
         /\ reply'[p].log = ""
         /\ server' = "up"
         /\ readJSON(fs'[OrdersFile(company[p])], FALSE, <<>>).value = <<>>
         /\ \A c \in DelCompanies \ {company[p]} :
              fs'[OrdersFile(c)] = fs[OrdersFile(c)]]_vars

\* ------------------------------------------------------- claims: desks
\* C25: readDesks for a company whose desks document was never written
\* returns, without failing and without creating a document, a registry whose
\* desks is the empty mapping; readDesks of a stored document that lacks the
\* desks key returns that document with desks set to the empty mapping.
C25_ReadDesksSeedsDesks ==
  [][\A p \in Procs :
       GetDesksReply(p) =>
         LET content == fs[DesksFile(company[p])]
             result == reply'[p].data[1]
         IN /\ reply'[p].code = 200 /\ fs' = fs
            /\ content = Absent => result.desks = EmptyObj
            /\ (content.st = "full" /\ content.doc[1].desks = Undefined) =>
                 result = [content.doc[1] EXCEPT !.desks = EmptyObj]]_vars

\* the step that completes the write of a PUT /api/desks/:id
DeskSaved(p) == op[p] = "saveDesk" /\ WRename1(p) /\ reply'[p].code = 200

\* C26: numDesks of a company's stored registry never decreases across a
\* saveDesk(c, id, body), and after a saveDesk with a numeric id n the stored
\* numDesks is at least n, for every prior registry (numDesks 0 or absent
\* included) and every id (zero and negative numerals included).
C26_NumDesksNeverDecreases ==
  [][\A p \in Procs :
       DeskSaved(p) =>
         LET before == fs[DesksFile(company[p])]
             after == fs'[DesksFile(company[p])].doc[1]
             asNum == ParseInt(param[p])
         IN /\ (before.st = "full" /\ before.doc[1].numDesks.t = "num") =>
                 (after.numDesks.t = "num" /\ after.numDesks.n >= before.doc[1].numDesks.n)
            /\ ~asNum.nan => (after.numDesks.t = "num" /\ after.numDesks.n >= asNum.n)]_vars

\* -------------------------------------------------------- claims: menu
\* the file holds a JSON document that is a non-null object
HoldsObject(content) == content.st = "full" /\ content.doc[1].t \in {"obj", "arr"}

\* C27: readMenu(c) returns the document of the company's unified store when
\* it is a non-null object, else the document of the legacy store when that is
\* a non-null object, else the built-in default tree.
C27_MenuResolutionOrder ==
  [][\A p \in Procs :
       GetMenuReply(p) =>
         LET unified == fs[companyMenuFile(company[p])]
             legacy == fs[canonicalMenuPath(company[p])]
         IN /\ reply'[p].code = 200
            /\ reply'[p].data[1] =
                 IF HoldsObject(unified) THEN unified.doc[1]
                 ELSE IF HoldsObject(legacy) THEN legacy.doc[1]
                 ELSE defaultMenu]_vars

\* a readMenu was answered from the legacy store under a unified store that
\* holds null
C27_Witness ==
  \E p \in Procs :
    /\ op[p] = "getMenu" /\ pc[p] = "done"
    /\ fs[companyMenuFile(company[p])] = JsonText(JNull)
    /\ fs[canonicalMenuPath(company[p])] = JsonText(MenuA)
    /\ reply[p].data[1] = MenuA

\* the image payload the request of the model carries for the item `id`
Carried(id) ==
  CASE id \in {<<"tea">>, <<"a", "b">>, NoItemId} -> "image"
    [] id = <<"bad">> -> "baddata"
    [] OTHER -> "none"
\* the step that answers a POST /api/menu whose writes succeeded
MenuSaved(p) == MenuReadBack(p) /\ reply'[p].code = 200
NoInlineData(items) ==
  \A i \in 1..Len(items) : items[i].imageData.kind \notin {"image", "baddata"}

\* C28: after a saveMenu(c, M) that succeeds no item of the stored menu carries
\* an inline data-URI payload, every item that carried a well-formed
\* data:image/...;base64 payload carries a reference to a persisted file, every
\* item that carried a malformed data URI has neither payload nor reference,
\* and the readMenu(c) that follows returns no embedded data.
C28_ImagesExtracted ==
  [][\A p \in Procs :
       MenuSaved(p) =>
         LET items == AllItems(fs[companyMenuFile(company[p])].doc[1].cats)
         IN /\ NoInlineData(items)
            /\ \A i \in 1..Len(items) :
                 /\ Carried(items[i].id) = "image" =>
                      (items[i].image.set /\ fs[items[i].image.path].st = "full")
                 /\ Carried(items[i].id) = "baddata" => ~items[i].image.set
            /\ NoInlineData(AllItems(reply'[p].data[1].cats))]_vars

\* ------------------------------------------------------- claims: paths
\* the document paths of a company identifier
DocumentPaths(c) ==
  {companyOrdersPath(c), companyDesksPath(c), companyMenuFile(c), canonicalMenuPath(c)}
\* the paths under data/companies are in a directory of their own below it
UnderCompanyRoot(c) ==
  \A f \in {companyOrdersPath(c), companyDesksPath(c), companyMenuFile(c)} :
    IsPrefix(DATA_COMPANIES_DIR, f) /\ Len(f) = Len(DATA_COMPANIES_DIR) + 2
\* the step that takes a request in
Accepted(p) == pc[p] = "idle" /\ pc'[p] # "idle"

\* C29: the orders, desks and menu paths of the company identifier of every
\* request that is accepted lie under the per-company storage root, and they
\* are paths no other identifier that is accepted resolves to; an identifier
\* with a path separator (more than one segment) is not used as it is.
C29_PathsConfinedAndDistinct ==
  [][\A p \in Procs :
       Accepted(p) =>
         LET c == company'[p]
         IN /\ UnderCompanyRoot(c)
            /\ \A d \in RouteCompanies \ {c} : DocumentPaths(c) \cap DocumentPaths(d) = {}
            /\ Len(c) = 1]_vars

\* ------------------------------------------------------- claims: stall
InFlight(p) == pc[p] \notin {"idle", "done"}
Replied(p) == pc[p] = "done" /\ reply[p].code # 0

\* C30: whether or not the first request ever comes back from the filesystem
\* call it is in, every other request that was taken in is answered, on the
\* same company or another, on orders, desks or menu.
C30_StallStallsOneRequest ==
  \A p \in Procs \ {1} : InFlight(p) ~> Replied(p)

\* the second request was answered while the first is inside the write of the
\* temporary file of the same document
C30_Witness ==
  /\ pc[1] = "w_tmp_write" /\ Replied(2)
  /\ op[1] = op[2] /\ company[1] = company[2]

\* ------------------------------------------- claims on the container
KWrote(p) == pc[p] = "done" /\ op[p] = "kWrite" /\ reply[p].code = 200
StoredEntry(c) ==
  EntryOr(safeReadOrdersFile(fs[ORDERS_FILE], FALSE).value, ContainerKey(c))

\* C31: after writeOrders(X, A) and writeOrders(Y, B) of the container variant,
\* A different from B, have both returned, also when they ran concurrently, the
\* container holds X under A and Y under B.
C31_ContainerKeepsBothEntries ==
  \A p, q \in Procs :
    (KWrote(p) /\ KWrote(q) /\ company[p] # company[q]) =>
      /\ StoredEntry(company[p]) = Stringify(orders[p]).doc
      /\ StoredEntry(company[q]) = Stringify(orders[q]).doc

Holding(p) == pc[p] \in {"k_tmp_open", "k_tmp_write", "k_rename"}

\* C34: at most one safeWriteOrdersFile call at a time is between taking
\* _ordersWriteLock and releasing it, so the temporary file a call renames is
\* the one it wrote itself, complete.
C34_OneWriterHoldsLock ==
  /\ \A p, q \in Procs : (Holding(p) /\ Holding(q)) => p = q
  /\ \A p \in Procs : pc[p] = "k_rename" => fs[ORDERS_FILE_TMP] = json[p]

\* a call is about to rename while another waits for the flag
C34_Witness ==
  \E p, q \in Procs : pc[p] = "k_rename" /\ pc[q] = "k_wait"

Wrote(p) == pc[p] = "done" /\ op[p] = "writeOrders"

\* C32: when writeJSONAtomic calls to one destination overlap and no filesystem
\* call fails by itself, every call reports success, and once all have returned
\* the destination holds the complete document of one of the calls and the
\* temporary file is gone.
C32_OverlappingWritesLeaveOneDocument ==
  (started >= 2 /\ \A p \in Procs : Wrote(p) \/ pc[p] = "idle") =>
    \A p \in Procs :
      Wrote(p) =>
        /\ reply[p].code = 200
        /\ \E q \in Procs : Wrote(q) /\ fs[Dest(p)] = json[q]
        /\ fs[Tmp(p)] = Absent

\* C33: when the only writeJSONAtomic call of a run signals failure, the
\* destination holds what it held before the call, whichever tiers the call
\* went through.
C33_FailedWriteKeepsDocument ==
  \A p \in Procs :
    (started = 1 /\ Wrote(p) /\ reply[p].code = 500) => fs[Dest(p)] = StartFiles[Dest(p)]

\* ------------------------------------------ claims on the menu stores
\* C36: whenever no saveMenu call is in progress and every saveMenu so far
\* reported success, the document under MENUS_DIR and the document under
\* data/companies of a company are equal, also after saveMenu calls for the
\* same company that overlapped.
C36_MenuStoresEqual ==
  (\A p \in Procs : pc[p] \in {"idle", "done"} /\ reply[p].code \in {0, 200}) =>
    \A c \in MenuCompanies : fs[canonicalMenuPath(c)] = fs[companyMenuFile(c)]

\* C37: after the loops of saveMenu(c, M), the reference stored on every item
\* of M that carried a well-formed inline image designates a file that holds
\* that item's own payload, also when two items of M have the same id.
C37_ReferenceHoldsOwnPayload ==
  [][\A p \in Procs :
       (pc[p] = "m_images" /\ pc'[p] # "m_images") =>
         LET sent == AllItems(body[p].cats)
             kept == AllItems(body'[p].cats)
         IN \A i \in 1..Len(sent) :
              (sent[i].imageData.kind = "image" /\ kept[i].image.set) =>
                fs'[kept[i].image.path] = ImageFile(sent[i].imageData.bytes)]_vars

\* ------------------------------------------ claims on the prep times
\* the order a create or an update answered with, as it is stored
Saved(p) ==
  /\ pc[p] = "done"
  /\ (op[p] = "create" /\ reply[p].code = 201) \/ (op[p] = "update" /\ reply[p].code = 200)
SavedOrder(p) ==
  StoredOrders(company[p])[KeyIndex(StoredOrders(company[p]), reply[p].order.id)]

\* C38: after a createOrder or an updateOrder that succeeds the stored order
\* has startedAt set, and completedAt set when its status is completed; a
\* create that was sent no startedAt stores the order's timestamp there.
C38_PrepTimesSet ==
  /\ [](\A p \in Procs :
          Saved(p) =>
            /\ Truthy(SavedOrder(p).startedAt)
            /\ SavedOrder(p).status = Str("completed") => Truthy(SavedOrder(p).completedAt))
  /\ [][\A p \in Procs :
          (pc[p] = "c_read2" /\ pc'[p] = "w_mkdir" /\ ~Truthy(body[p].startedAt))
          => body'[p].startedAt = body'[p].timestamp]_vars

\* an order created at time 1 with no prep time fields was completed by an
\* update at time 2
C38_Witness ==
  \E p \in Procs :
    /\ Saved(p) /\ op[p] = "update"
    /\ SavedOrder(p).status = Str("completed")
    /\ SavedOrder(p).completedAt = IsoNow(2)
    /\ SavedOrder(p).startedAt = IsoNow(1)
    /\ SavedOrder(p).timestamp = IsoNow(1)

\* ------------------------------------------------- claims on the three collections
DocOwners == {NoCompany, <<"default">>, <<"acme">>, <<"beta">>}
OrdersDocs == {f \in Paths : \E c \in DocOwners : f = OrdersFile(c)}
DesksDocs == {f \in Paths : \E c \in DocOwners : f = DesksFile(c)}
MenuDocs ==
  {f \in Paths : \E c \in DocOwners \ {NoCompany} :
                   f \in {canonicalMenuPath(c), companyMenuFile(c)}}
OrdersOps == {"create", "update", "rate", "delete", "clear"}
MenuOps == {"saveMenu", "saveMenuCopy"}
GetOps == {"list", "getDesks", "getMenu"}
Keeps(docs) == \A f \in docs : fs'[f] = fs[f]

\* C39: a step of an orders operation changes no desks and no menu document,
\* a step of a desks operation changes no orders and no menu document, a step
\* of a menu operation changes no orders and no desks document, and a step of
\* a list or get operation changes no stored document.
C39_CollectionsAreIndependent ==
  [][\A p \in Procs :
       pc'[p] # pc[p] =>
         /\ op[p] \in OrdersOps => Keeps(DesksDocs \cup MenuDocs)
         /\ op[p] \in DeskOps => Keeps(OrdersDocs \cup MenuDocs)
         /\ op[p] \in MenuOps => Keeps(OrdersDocs \cup DesksDocs)
         /\ op[p] \in GetOps => Keeps(OrdersDocs \cup DesksDocs \cup MenuDocs)]_vars

\* ------------------------------------------------- claims on the startup
EnsureDocs ==
  { ORDERS_FILE, DESKS_FILE, canonicalMenuPath(<<"default">>),
    companyOrdersPath(<<"default">>), companyDesksPath(<<"default">>),
    companyMenuFile(<<"default">>) }
EmptyDataDir == \A f \in Paths : fs[f] = Absent
Completed(q) == pc[q] = "done" /\ reply[q].log # InitLog
SeededDefault ==
  /\ fs[companyOrdersPath(<<"default">>)] = Stringify(<<>>)
  /\ fs[companyDesksPath(<<"default">>)] = JsonText(defaultDesks)
  /\ fs[canonicalMenuPath(<<"default">>)] = JsonText(defaultMenu)
  /\ fs[companyMenuFile(<<"default">>)] = JsonText(defaultMenu)

\* C40: no step of ensureFilesExist changes a document that exists and is
\* valid; the first run, started on an empty data directory and returned, has
\* left the default company with empty orders, the ten-desk registry and the
\* built-in menu in both menu files; once a run has returned, no later run
\* changes a file.
C40_EnsureKeepsAndSeeds ==
  /\ [][\A f \in EnsureDocs : fs[f].st = "full" => fs'[f] = fs[f]]_vars
  /\ EmptyDataDir => [](Completed(1) => SeededDefault)
  /\ [][(\E q \in Procs : Completed(q)) => fs' = fs]_vars

====
